---- MODULE Spec2Model ----
(***************************************************************************)
(* Battleship core engine: the Board (ship placement, shot resolution) and *)
(* the Game referee (Join, PlaceShip, StartGame, Attack, GetView).         *)
(*                                                                         *)
(* SpecBoard drives one stand-alone Board through its public methods.      *)
(* Spec drives one Game through its public methods.                        *)
(* SpecLobby drives the MemoryService registry, one call at a time.        *)
(* SpecJoin runs JoinMatch calls of several threads step by step.          *)
(* SpecGC runs the cleanup loop next to a scripted match and the clock.     *)
(* SpecBus drives the NotificationService and the readers of its channels.  *)
(* SpecLocks runs the MemoryService calls of goroutines lock by lock.      *)
(* SpecAttack runs Attack calls of goroutines on one match in play.        *)
(* SpecCreate runs CreateMatch calls of goroutines in their two halves.    *)
(* SpecCtl drives the Controller of the Player-based model.                *)
(* SpecRefuse runs a scripted match and the calls the registry refuses.    *)
(* SpecSweep runs the steps of a gc sweep beside Attack calls in flight.   *)
(* SpecUnsub follows the subscriptions of the NotificationService.         *)
(* SpecEvents follows the handler goroutines of the MemoryEventBus.        *)
(***************************************************************************)
EXTENDS Integers, Sequences, FiniteSets, TLC

VARIABLES
    b,      \* the stand-alone Board under test: [tiles, history]
    bret,   \* the last Board method call: its name, target and return values
    blog,   \* record of the calls made on b: cells shot, Sunk results per ship
    g,      \* the Game: [player1, player2, turn, state, winner]
    gret,   \* return value of the last Game method call
    games,  \* MemoryService.games: match identifier -> safeGame
    uuid,   \* number of match identifiers handed out so far
    now,    \* the wall clock read by time.Now()
    sret,   \* return value of the last MemoryService call
    thr,    \* the JoinMatch call each thread is in: its position and locals
    subscribers, \* NotificationService.subscribers: key -> list of [id, ch]
    nret,   \* what the last Publish did: the subscribers that lost the event
    gamesMu, \* MemoryService.gamesMu: its readers, its writer, the waiting writers
    mus,    \* safeGame.mu of each match: the goroutine that holds it
    call,   \* the MemoryService call each goroutine is in: its position and locals
    ctl,    \* the Controller of the Player-based model: [players, turn, phase, winner]
    kret,   \* return values of the last Controller call
    handles, \* the subscriptions handed out by Subscribe: id -> [matchID, closed]
    ebus    \* the MemoryEventBus, the handler goroutines it started, the events handled

boardVars == <<b, bret, blog>>
gameVars == <<g, gret>>
lobbyVars == <<games, uuid, now, sret, thr>>
busVars == <<subscribers, nret>>
lockVars == <<gamesMu, mus, call>>
ctlVars == <<ctl, kret>>
evVars == <<handles, ebus>>

vars == <<b, bret, blog, g, gret, games, uuid, now, sret, thr, subscribers, nret,
         gamesMu, mus, call, ctl, kret, handles, ebus>>

(***************************************************************************)
(* Program constants                                                       *)
(***************************************************************************)
GridSize == 10

ShotResultInvalid == 0
ShotResultMiss == 1
ShotResultHit == 2
ShotResultSunk == 3

Horizontal == 0
Vertical == 1

StateWaiting == 0
StateSetup == 1
StatePlaying == 2
StateGameOver == 3

ErrNil == "nil"
ErrShipOutOfBounds == "ship placement out of bounds"
ErrShipOverlap == "ship placement overlaps with another ship"
ErrNotYourTurn == "not your turn"
ErrInvalidShot == "invalid shot"
ErrUnknownPlayer == "unknown player"
ErrNoShipsRemaining == "no ships remaining of that size"
ErrNotInPlay == "game not in playing state"
ErrNotInSetup == "game not in setup state"
ErrNotReadyToStart == "not all ships placed by both players"
ErrGameFull == "game already has two players"
Panic == "panic: nil pointer dereference"

(***************************************************************************)
(* Bounds of the model                                                     *)
(***************************************************************************)
\* Number of shots a stand-alone board receives at fresh cells.
MaxShots == 2
\* Occupied tiles of the stand-alone board beyond which no ship is added.
MaxOccupied == 2
\* Number of successful attacks in one game.
MaxAttacks == 3
\* Number of matches the second user creates.
MaxOther == 1
\* Number of matches created while the cleanup loop is watched.
MaxMatches == 2
\* Number of Attack calls each client makes at the same time as the other.
MaxCalls == 2
\* The threads that call JoinMatch at the same time.
Threads == {1, 2}

(***************************************************************************)
(* Input domains                                                           *)
(***************************************************************************)
\* Coordinates are drawn around the far corner of the grid: on each axis -1,
\* the last two indices of the grid and the first index past it.
Axis == {-1, GridSize - 2, GridSize - 1, GridSize}
Coords == [X : Axis, Y : Axis]
\* Attacks in a game aim at the last row of the grid and the row past it.
AttackCoords == [X : Axis, Y : {GridSize - 1, GridSize}]
Orients == {Horizontal, Vertical}
\* Orientation is an int type: a value that is neither of its constants.
OtherOrientation == 2
BoardOrients == Orients \cup {OtherOrientation}
Index == 0 .. (GridSize - 1)

\* A *Ship is modelled by its identity; 0 is the nil pointer.  The callers
\* of the stand-alone board hold two ships, NewShip(1) and NewShip(2).
NilShip == 0
ShipPtrs == {1, 2}
ShipSize(s) == s

(***************************************************************************)
(* Board                                                                    *)
(***************************************************************************)
\* Board.tiles and Board.history are GridSize x GridSize arrays that start
\* zeroed.  They are stored as the map from the cells written so far to
\* their value; every other cell reads as the zero value.
ZeroTile == [isHit |-> FALSE, ship |-> NilShip]

NewBoard == [tiles |-> <<>>, history |-> <<>>]

tileAt(board, x, y) ==
    IF <<x, y>> \in DOMAIN board.tiles THEN board.tiles[<<x, y>>] ELSE ZeroTile

historyAt(board, x, y) ==
    IF <<x, y>> \in DOMAIN board.history THEN board.history[<<x, y>>] ELSE ShotResultInvalid

setTile(board, x, y, t) ==
    [board EXCEPT !.tiles = (<<x, y>> :> t) @@ board.tiles]

setHistory(board, x, y, r) ==
    [board EXCEPT !.history = (<<x, y>> :> r) @@ board.history]

Vector(o) ==
    CASE o = Horizontal -> <<1, 0>>
      [] o = Vertical   -> <<0, 1>>
      [] OTHER          -> <<0, 0>>

calculateSegments(start, size, o) ==
    LET dx == Vector(o)[1]
        dy == Vector(o)[2]
    IN  [i \in 1 .. size |-> [X |-> start.X + (i - 1) * dx, Y |-> start.Y + (i - 1) * dy]]

isOutOfBounds(c) ==
    c.Y < 0 \/ c.Y >= GridSize \/ c.X < 0 \/ c.X >= GridSize

isOccupied(board, c) ==
    tileAt(board, c.X, c.Y).ship # NilShip

\* Mutant: the overlap check is left out.
canPlaceShip_NoOverlapCheck(board, s) ==
    IF \E i \in DOMAIN s : isOutOfBounds(s[i]) THEN ErrShipOutOfBounds
    ELSE ErrNil

canPlaceShip(board, s) ==
    IF \E i \in DOMAIN s : isOutOfBounds(s[i]) THEN ErrShipOutOfBounds
    ELSE IF \E i \in DOMAIN s : isOccupied(board, s[i]) THEN ErrShipOverlap
    ELSE ErrNil

RECURSIVE placeShipFrom(_, _, _, _)
placeShipFrom(board, s, ship, i) ==
    IF i > Len(s) THEN board
    ELSE placeShipFrom(
             setTile(board, s[i].X, s[i].Y,
                     [tileAt(board, s[i].X, s[i].Y) EXCEPT !.ship = ship]),
             s, ship, i + 1)

\* Mutant: the first segment is not written.
placeShipAt_SkipFirst(board, s, ship) == placeShipFrom(board, s, ship, 2)

placeShipAt(board, s, ship) == placeShipFrom(board, s, ship, 1)

\* Board.PlaceShip: the board afterwards and the error returned.
Board_PlaceShip(board, c, ship, size, o) ==
    LET segments == calculateSegments(c, size, o)
        err == canPlaceShip(board, segments)
    IN  IF err # ErrNil
        THEN [board |-> board, err |-> err]
        ELSE [board |-> placeShipAt(board, segments, ship), err |-> ErrNil]

\* Mutant: a ship counts as sunk as soon as the tile just shot is hit.
isShipSunk_Always(board, s) ==
    \E y \in Index, x \in Index :
        tileAt(board, x, y).ship = s /\ tileAt(board, x, y).isHit

isShipSunk(board, s) ==
    \A y \in Index, x \in Index :
        ~(tileAt(board, x, y).ship = s /\ ~tileAt(board, x, y).isHit)

\* Mutant: a repeated shot at water is answered Miss again.
Board_ReceiveShot_RepeatMiss(board, c) ==
    IF isOutOfBounds(c) THEN [board |-> board, res |-> ShotResultInvalid]
    ELSE IF tileAt(board, c.X, c.Y).isHit /\ tileAt(board, c.X, c.Y).ship = NilShip
    THEN [board |-> board, res |-> ShotResultMiss]
    ELSE IF tileAt(board, c.X, c.Y).isHit THEN [board |-> board, res |-> ShotResultInvalid]
    ELSE LET t == [tileAt(board, c.X, c.Y) EXCEPT !.isHit = TRUE]
             hit == setTile(board, c.X, c.Y, t)
             res == IF t.ship = NilShip THEN ShotResultMiss
                    ELSE IF isShipSunk(hit, t.ship) THEN ShotResultSunk
                    ELSE ShotResultHit
         IN  [board |-> setHistory(hit, c.X, c.Y, res), res |-> res]

\* Board.ReceiveShot: the board afterwards and the ShotResult returned.
Board_ReceiveShot(board, c) ==
    IF isOutOfBounds(c) THEN [board |-> board, res |-> ShotResultInvalid]
    ELSE IF tileAt(board, c.X, c.Y).isHit THEN [board |-> board, res |-> ShotResultInvalid]
    ELSE LET t == [tileAt(board, c.X, c.Y) EXCEPT !.isHit = TRUE]
             hit == setTile(board, c.X, c.Y, t)
             res == IF t.ship = NilShip THEN ShotResultMiss
                    ELSE IF isShipSunk(hit, t.ship) THEN ShotResultSunk
                    ELSE ShotResultHit
         IN  [board |-> setHistory(hit, c.X, c.Y, res), res |-> res]

\* Mutant: a board without ships does not count as sunk.
AllShipsSunk_NeedsShip(board) ==
    /\ \E y \in Index, x \in Index : tileAt(board, x, y).ship # NilShip
    /\ \A y \in Index, x \in Index :
          ~(tileAt(board, x, y).ship # NilShip /\ ~tileAt(board, x, y).isHit)

AllShipsSunk(board) ==
    \A y \in Index, x \in Index :
        ~(tileAt(board, x, y).ship # NilShip /\ ~tileAt(board, x, y).isHit)

(***************************************************************************)
(* Game                                                                     *)
(***************************************************************************)
IDs == {"A", "B"}
NoID == ""
\* An identifier no Join ever uses.
Outsider == "Z"
Callers == IDs \cup {Outsider}
Sizes == {1, 2}

\* The fleets handed to Join: the nil map, one ship of size 1, one ship of
\* each of the sizes 1 and 2.
NilFleet == <<>>
FleetChoices == {NilFleet, (1 :> 1), (1 :> 1) @@ (2 :> 1)}

StandardFleet == (5 :> 1) @@ (4 :> 1) @@ (3 :> 2) @@ (2 :> 1)

startingFleet(fleet) ==
    IF fleet = NilFleet THEN StandardFleet ELSE fleet

NilPlayer == [nil |-> TRUE]

NewPlayer(playerID, fleet) ==
    [id |-> playerID, board |-> NewBoard, fleet |-> startingFleet(fleet)]

NewGame ==
    [player1 |-> NilPlayer, player2 |-> NilPlayer,
     turn |-> NoID, state |-> StateWaiting, winner |-> NoID]

\* Every Game method below yields the game afterwards, the error returned
\* and (for Attack) the ShotResult returned.
Ret(game, err, res) == [g |-> game, err |-> err, res |-> res]

\* Mutant: a Join on a full game replaces the guest.
Game_Join_Overwrite(game, playerID, fleet) ==
    IF game.player1 = NilPlayer
    THEN Ret([game EXCEPT !.player1 = NewPlayer(playerID, fleet)], ErrNil, ShotResultInvalid)
    ELSE Ret([game EXCEPT !.player2 = NewPlayer(playerID, fleet), !.state = StateSetup],
             ErrNil, ShotResultInvalid)

Game_Join(game, playerID, fleet) ==
    IF game.player1 = NilPlayer
    THEN Ret([game EXCEPT !.player1 = NewPlayer(playerID, fleet)], ErrNil, ShotResultInvalid)
    ELSE IF game.player2 = NilPlayer
    THEN Ret([game EXCEPT !.player2 = NewPlayer(playerID, fleet), !.state = StateSetup],
             ErrNil, ShotResultInvalid)
    ELSE Ret(game, ErrGameFull, ShotResultInvalid)

\* getPlayerByID and getOpponent answer with the slot: 1, 2, 0 for nil, or
\* -1 when the lookup dereferences an empty slot.
getPlayerByID(game, playerID) ==
    IF game.player1 = NilPlayer THEN -1
    ELSE IF playerID = game.player1.id THEN 1
    ELSE IF game.player2 = NilPlayer THEN -1
    ELSE IF playerID = game.player2.id THEN 2
    ELSE 0

getOpponent(game, playerID) ==
    IF game.player1 = NilPlayer THEN -1
    ELSE IF playerID = game.player1.id THEN 2
    ELSE IF game.player2 = NilPlayer THEN -1
    ELSE IF playerID = game.player2.id THEN 1
    ELSE 0

Slot(game, n) == IF n = 1 THEN game.player1 ELSE game.player2

SetSlot(game, n, p) ==
    IF n = 1 THEN [game EXCEPT !.player1 = p] ELSE [game EXCEPT !.player2 = p]

\* The pointer of the Ship allocated by Game.PlaceShip: distinct from every
\* ship already on the player's board.
freshShip(p, size) == GridSize * GridSize * size + p.fleet[size]

\* Mutant: the inventory is decremented before the board accepts the ship.
Game_PlaceShip_EarlyDecrement(game, playerID, c, size, o) ==
    IF game.state # StateSetup THEN Ret(game, ErrNotInSetup, ShotResultInvalid)
    ELSE LET n == getPlayerByID(game, playerID)
         IN  IF n = 0 THEN Ret(game, ErrUnknownPlayer, ShotResultInvalid)
             ELSE LET p == Slot(game, n)
                  IN  IF ~(size \in DOMAIN p.fleet) \/ p.fleet[size] <= 0
                      THEN Ret(game, ErrNoShipsRemaining, ShotResultInvalid)
                      ELSE LET r == Board_PlaceShip(p.board, c, freshShip(p, size), size, o)
                           IN  Ret(SetSlot(game, n,
                                     [p EXCEPT !.board = r.board,
                                               !.fleet[size] = p.fleet[size] - 1]),
                                   r.err, ShotResultInvalid)

Game_PlaceShip(game, playerID, c, size, o) ==
    IF game.state # StateSetup THEN Ret(game, ErrNotInSetup, ShotResultInvalid)
    ELSE LET n == getPlayerByID(game, playerID)
         IN  IF n = 0 THEN Ret(game, ErrUnknownPlayer, ShotResultInvalid)
             ELSE LET p == Slot(game, n)
                  IN  IF ~(size \in DOMAIN p.fleet) \/ p.fleet[size] <= 0
                      THEN Ret(game, ErrNoShipsRemaining, ShotResultInvalid)
                      ELSE LET r == Board_PlaceShip(p.board, c, freshShip(p, size), size, o)
                           IN  IF r.err # ErrNil
                               THEN Ret(game, r.err, ShotResultInvalid)
                               ELSE Ret(SetSlot(game, n,
                                          [p EXCEPT !.board = r.board,
                                                    !.fleet[size] = p.fleet[size] - 1]),
                                        ErrNil, ShotResultInvalid)

playerShipsPlaced(p) ==
    \A size \in DOMAIN p.fleet : ~(p.fleet[size] > 0)

\* Mutant: only the host's inventory is looked at.
allShipsPlaced_HostOnly(game) ==
    playerShipsPlaced(game.player1)

allShipsPlaced(game) ==
    playerShipsPlaced(game.player1) /\ playerShipsPlaced(game.player2)

\* Mutant: the phase check only rejects StateWaiting.
Game_StartGame_AnyPhase(game) ==
    IF game.state = StateWaiting THEN Ret(game, ErrNotInSetup, ShotResultInvalid)
    ELSE IF ~allShipsPlaced(game) THEN Ret(game, ErrNotReadyToStart, ShotResultInvalid)
    ELSE Ret([game EXCEPT !.state = StatePlaying, !.turn = game.player1.id],
             ErrNil, ShotResultInvalid)

\* Mutant: the guest moves first.
Game_StartGame_GuestFirst(game) ==
    IF game.state # StateSetup THEN Ret(game, ErrNotInSetup, ShotResultInvalid)
    ELSE IF ~allShipsPlaced(game) THEN Ret(game, ErrNotReadyToStart, ShotResultInvalid)
    ELSE Ret([game EXCEPT !.state = StatePlaying, !.turn = game.player2.id],
             ErrNil, ShotResultInvalid)

\* Mutant: the phase moves to Playing but nobody is given the turn.
Game_StartGame_NoTurn(game) ==
    IF game.state # StateSetup THEN Ret(game, ErrNotInSetup, ShotResultInvalid)
    ELSE IF ~allShipsPlaced(game) THEN Ret(game, ErrNotReadyToStart, ShotResultInvalid)
    ELSE Ret([game EXCEPT !.state = StatePlaying], ErrNil, ShotResultInvalid)

Game_StartGame(game) ==
    IF game.state # StateSetup THEN Ret(game, ErrNotInSetup, ShotResultInvalid)
    ELSE IF ~allShipsPlaced(game) THEN Ret(game, ErrNotReadyToStart, ShotResultInvalid)
    ELSE Ret([game EXCEPT !.state = StatePlaying, !.turn = game.player1.id],
             ErrNil, ShotResultInvalid)

\* Mutant: the turn never goes back from the guest to the host.
passTurn_NoReturn(game) ==
    IF game.turn = game.player1.id THEN [game EXCEPT !.turn = game.player2.id]
    ELSE game

passTurn(game) ==
    IF game.turn = game.player1.id THEN [game EXCEPT !.turn = game.player2.id]
    ELSE IF game.turn = game.player2.id THEN [game EXCEPT !.turn = game.player1.id]
    ELSE game

\* Mutant: an invalid shot costs the attacker the turn.
Game_Attack_InvalidPasses(game, attackerID, c) ==
    IF game.state # StatePlaying THEN Ret(game, ErrNotInPlay, ShotResultInvalid)
    ELSE IF getPlayerByID(game, attackerID) = 0 THEN Ret(game, ErrUnknownPlayer, ShotResultInvalid)
    ELSE IF game.turn # attackerID THEN Ret(game, ErrNotYourTurn, ShotResultInvalid)
    ELSE LET n == getOpponent(game, attackerID)
             d == Slot(game, n)
             r == Board_ReceiveShot(d.board, c)
             shot == SetSlot(game, n, [d EXCEPT !.board = r.board])
         IN  IF r.res = ShotResultInvalid
             THEN Ret(passTurn(game), ErrInvalidShot, ShotResultInvalid)
             ELSE IF r.res = ShotResultSunk /\ AllShipsSunk(r.board)
             THEN Ret([shot EXCEPT !.state = StateGameOver, !.winner = attackerID],
                      ErrNil, r.res)
             ELSE Ret(passTurn(shot), ErrNil, r.res)

\* Mutant: the first ship sunk ends the game.
Game_Attack_WinOnSunk(game, attackerID, c) ==
    IF game.state # StatePlaying THEN Ret(game, ErrNotInPlay, ShotResultInvalid)
    ELSE IF getPlayerByID(game, attackerID) = 0 THEN Ret(game, ErrUnknownPlayer, ShotResultInvalid)
    ELSE IF game.turn # attackerID THEN Ret(game, ErrNotYourTurn, ShotResultInvalid)
    ELSE LET n == getOpponent(game, attackerID)
             d == Slot(game, n)
             r == Board_ReceiveShot(d.board, c)
             shot == SetSlot(game, n, [d EXCEPT !.board = r.board])
         IN  IF r.res = ShotResultInvalid
             THEN Ret(game, ErrInvalidShot, ShotResultInvalid)
             ELSE IF r.res = ShotResultSunk
             THEN Ret([shot EXCEPT !.state = StateGameOver, !.winner = attackerID],
                      ErrNil, r.res)
             ELSE Ret(passTurn(shot), ErrNil, r.res)

\* Mutant: the turn is not checked.
Game_Attack_NoTurnCheck(game, attackerID, c) ==
    IF game.state # StatePlaying THEN Ret(game, ErrNotInPlay, ShotResultInvalid)
    ELSE IF getPlayerByID(game, attackerID) = 0 THEN Ret(game, ErrUnknownPlayer, ShotResultInvalid)
    ELSE LET n == getOpponent(game, attackerID)
             d == Slot(game, n)
             r == Board_ReceiveShot(d.board, c)
             shot == SetSlot(game, n, [d EXCEPT !.board = r.board])
         IN  IF r.res = ShotResultInvalid
             THEN Ret(game, ErrInvalidShot, ShotResultInvalid)
             ELSE IF r.res = ShotResultSunk /\ AllShipsSunk(r.board)
             THEN Ret([shot EXCEPT !.state = StateGameOver, !.winner = attackerID],
                      ErrNil, r.res)
             ELSE Ret(passTurn(shot), ErrNil, r.res)

\* Mutant: the last ship sunk ends the game without naming the winner.
Game_Attack_NoWinner(game, attackerID, c) ==
    IF game.state # StatePlaying THEN Ret(game, ErrNotInPlay, ShotResultInvalid)
    ELSE IF getPlayerByID(game, attackerID) = 0 THEN Ret(game, ErrUnknownPlayer, ShotResultInvalid)
    ELSE IF game.turn # attackerID THEN Ret(game, ErrNotYourTurn, ShotResultInvalid)
    ELSE LET n == getOpponent(game, attackerID)
             d == Slot(game, n)
             r == Board_ReceiveShot(d.board, c)
             shot == SetSlot(game, n, [d EXCEPT !.board = r.board])
         IN  IF r.res = ShotResultInvalid
             THEN Ret(game, ErrInvalidShot, ShotResultInvalid)
             ELSE IF r.res = ShotResultSunk /\ AllShipsSunk(r.board)
             THEN Ret([shot EXCEPT !.state = StateGameOver], ErrNil, r.res)
             ELSE Ret(passTurn(shot), ErrNil, r.res)

Game_Attack(game, attackerID, c) ==
    IF game.state # StatePlaying THEN Ret(game, ErrNotInPlay, ShotResultInvalid)
    ELSE IF getPlayerByID(game, attackerID) = 0 THEN Ret(game, ErrUnknownPlayer, ShotResultInvalid)
    ELSE IF game.turn # attackerID THEN Ret(game, ErrNotYourTurn, ShotResultInvalid)
    ELSE LET n == getOpponent(game, attackerID)
         IN  IF n = 0 THEN Ret(game, ErrNotYourTurn, ShotResultInvalid)
             ELSE LET d == Slot(game, n)
                      r == Board_ReceiveShot(d.board, c)
                      shot == SetSlot(game, n, [d EXCEPT !.board = r.board])
                  IN  IF r.res = ShotResultInvalid
                      THEN Ret(game, ErrInvalidShot, ShotResultInvalid)
                      ELSE IF r.res = ShotResultSunk /\ AllShipsSunk(r.board)
                      THEN Ret([shot EXCEPT !.state = StateGameOver, !.winner = attackerID],
                               ErrNil, r.res)
                      ELSE Ret(passTurn(shot), ErrNil, r.res)

\* dto.CellState values and the DTO names of the phases.
CellEmpty == "EMPTY"
CellShip == "SHIP"
CellHit == "HIT"
CellMiss == "MISS"
CellSunk == "SUNK"
CellUnknown == "???"

toDTOState(state) ==
    CASE state = StateSetup    -> "SETUP"
      [] state = StatePlaying  -> "PLAYING"
      [] state = StateGameOver -> "FINISHED"
      [] OTHER                 -> ""

\* What one cell of a board looks like in a snapshot: a shot cell shows the
\* result recorded for it, an unshot ship cell shows as a ship unless ships
\* are hidden, every other cell shows the filler of the snapshot.
cellState(board, x, y, hideShips) ==
    LET t == tileAt(board, x, y)
    IN  IF t.isHit
        THEN CASE historyAt(board, x, y) = ShotResultSunk -> CellSunk
               [] historyAt(board, x, y) = ShotResultHit  -> CellHit
               [] OTHER                                   -> CellMiss
        ELSE IF t.ship # NilShip /\ ~hideShips THEN CellShip
        ELSE IF hideShips THEN CellUnknown
        ELSE CellEmpty

\* Board.GetSnapshot: the dto.BoardView.  The grid is stored as its filler
\* and the map from the cells that differ from the filler to their state.
GetSnapshot(board, hideShips) ==
    LET fill == IF hideShips THEN CellUnknown ELSE CellEmpty
        shown == {p \in DOMAIN board.tiles :
                     cellState(board, p[1], p[2], hideShips) # fill}
    IN  [Size |-> GridSize,
         Fill |-> fill,
         Grid |-> [p \in shown |-> cellState(board, p[1], p[2], hideShips)]]

gridAt(view, x, y) ==
    IF <<x, y>> \in DOMAIN view.Grid THEN view.Grid[<<x, y>>] ELSE view.Fill

\* Player.GetView
Player_GetView(p, hideShips) ==
    [ID |-> p.id, Board |-> GetSnapshot(p.board, hideShips), Fleet |-> p.fleet]

\* The zero dto.GameView, returned next to every error.
ZeroView ==
    LET none == [ID |-> NoID, Board |-> [Size |-> 0, Fill |-> "", Grid |-> <<>>],
                 Fleet |-> <<>>]
    IN  [State |-> "", Turn |-> NoID, Winner |-> NoID, Me |-> none, Enemy |-> none]

ViewRet(game, err, view) ==
    [g |-> game, err |-> err, res |-> ShotResultInvalid, view |-> view]

\* Mutant: the opponent's board is rendered like the observer's own.
Game_GetView_NoFog(game, observerID) ==
    LET me == IF game.player1 = NilPlayer THEN -1
              ELSE IF observerID = game.player1.id THEN 1
              ELSE IF game.player2 = NilPlayer THEN -1
              ELSE IF observerID = game.player2.id THEN 2
              ELSE 0
    IN  IF me = -1 THEN ViewRet(game, Panic, ZeroView)
        ELSE IF me = 0 THEN ViewRet(game, ErrUnknownPlayer, ZeroView)
        ELSE IF Slot(game, 3 - me) = NilPlayer THEN ViewRet(game, Panic, ZeroView)
        ELSE ViewRet(game, ErrNil,
                     [State  |-> toDTOState(game.state),
                      Turn   |-> game.turn,
                      Winner |-> game.winner,
                      Me     |-> Player_GetView(Slot(game, me), FALSE),
                      Enemy  |-> Player_GetView(Slot(game, 3 - me), FALSE)])

\* Game.GetView: the game (unchanged), the error and the view returned.  The
\* switch reads player1.id, then player2.id unless the first case matched;
\* reading through an empty slot, here or in Player.GetView, panics.
Game_GetView(game, observerID) ==
    LET me == IF game.player1 = NilPlayer THEN -1
              ELSE IF observerID = game.player1.id THEN 1
              ELSE IF game.player2 = NilPlayer THEN -1
              ELSE IF observerID = game.player2.id THEN 2
              ELSE 0
    IN  IF me = -1 THEN ViewRet(game, Panic, ZeroView)
        ELSE IF me = 0 THEN ViewRet(game, ErrUnknownPlayer, ZeroView)
        ELSE IF Slot(game, 3 - me) = NilPlayer THEN ViewRet(game, Panic, ZeroView)
        ELSE ViewRet(game, ErrNil,
                     [State  |-> toDTOState(game.state),
                      Turn   |-> game.turn,
                      Winner |-> game.winner,
                      Me     |-> Player_GetView(Slot(game, me), FALSE),
                      Enemy  |-> Player_GetView(Slot(game, 3 - me), TRUE)])

(***************************************************************************)
(* MemoryService                                                           *)
(***************************************************************************)
maxGamesPerUser == 5

ErrLimit == "max active games limit reached"
ErrMatchNotFound == "match not found"

\* The zero time.Time.
ZeroTime == 0

\* A match identifier is "game-" followed by a fresh UUID: identifier k is
\* the one built from the k-th UUID drawn.  NoMatch is the empty string.
NoMatch == 0

IsGameOver(game) == game.state = StateGameOver

\* Mutant: finished matches are counted too.
countActiveGamesByHost_All(gs, hostID) ==
    Cardinality({id \in DOMAIN gs : gs[id].host = hostID})

countActiveGamesByHost(gs, hostID) ==
    Cardinality({id \in DOMAIN gs : gs[id].host = hostID /\ ~IsGameOver(gs[id].game)})

\* MemoryService.CreateMatch: the registry afterwards, the error and the
\* identifier returned; k is the number of UUIDs drawn before, t the clock.
Svc_CreateMatch(gs, k, hostID, t) ==
    IF countActiveGamesByHost(gs, hostID) >= maxGamesPerUser
    THEN [games |-> gs, err |-> ErrLimit, id |-> NoMatch]
    ELSE LET gameID == k + 1
             j == Game_Join(NewGame, hostID, StandardFleet)
             sg == [id |-> gameID, game |-> j.g, createdAt |-> t, updatedAt |-> t,
                    host |-> hostID, guest |-> NoID]
         IN  IF j.err # ErrNil
             THEN [games |-> gs, err |-> j.err, id |-> NoMatch]
             ELSE [games |-> (gameID :> sg) @@ gs, err |-> ErrNil, id |-> gameID]

playerCountUnsafe(sg) ==
    (IF sg.host # NoID THEN 1 ELSE 0) + (IF sg.guest # NoID THEN 1 ELSE 0)

MatchSummary(id, createdAt, hostName, playerCount) ==
    [ID |-> id, CreatedAt |-> createdAt, HostName |-> hostName, PlayerCount |-> playerCount]

ZeroSummary == MatchSummary(NoMatch, ZeroTime, NoID, 0)

\* MemoryService.ListMatches: the slice returned, as the bag of its elements (the order of
\* the appended elements is the iteration order of the map): make() gives it
\* len(games) zero summaries, and one summary per match is appended to them.
Svc_ListMatches(gs) ==
    LET n == Cardinality(DOMAIN gs)
        made == IF n = 0 THEN <<>> ELSE (ZeroSummary :> n)
        appended == [m \in {MatchSummary(id, gs[id].createdAt, gs[id].host,
                                         playerCountUnsafe(gs[id])) : id \in DOMAIN gs}
                        |-> 1]
    IN  appended @@ made

\* The events the calls publish; NoEvent when a call publishes none.
EventPlayerJoined == "player.joined"
EventShipPlaced == "ship.placed"
EventAttackMade == "attack.made"
NoEvent == [Type |-> ""]

\* MemoryService.JoinMatch, run from start to end without another call in
\* between.  It publishes nothing.
Svc_JoinMatch(gs, matchID, playerID, t) ==
    IF matchID \notin DOMAIN gs
    THEN [games |-> gs, err |-> ErrMatchNotFound, view |-> ZeroView,
          event |-> NoEvent]
    ELSE LET sg == gs[matchID]
             j == Game_Join(sg.game, playerID, NilFleet)
         IN  IF j.err # ErrNil
             THEN [games |-> gs, err |-> j.err, view |-> ZeroView, event |-> NoEvent]
             ELSE LET v == Game_GetView(j.g, playerID)
                  IN  [games |-> [gs EXCEPT ![matchID] =
                                     [sg EXCEPT !.game = j.g, !.guest = playerID,
                                                !.updatedAt = t]],
                       err |-> v.err, view |-> v.view, event |-> NoEvent]

opponentOf(sg, playerID) == IF sg.host = playerID THEN sg.guest ELSE sg.host

\* Mutant: the game is not started after the placement.
Svc_PlaceShip_NoStart(gs, matchID, playerID, size, x, y, vertical, t) ==
    IF matchID \notin DOMAIN gs
    THEN [games |-> gs, err |-> ErrMatchNotFound, view |-> ZeroView, event |-> NoEvent]
    ELSE LET sg == gs[matchID]
             orientation == IF vertical THEN Vertical ELSE Horizontal
             r == Game_PlaceShip(sg.game, playerID, [X |-> x, Y |-> y], size, orientation)
         IN  IF r.err # ErrNil
             THEN [games |-> gs, err |-> r.err, view |-> ZeroView, event |-> NoEvent]
             ELSE LET started == r.g
                      v == Game_GetView(started, playerID)
                      after == [gs EXCEPT ![matchID] =
                                   [sg EXCEPT !.game = started, !.updatedAt = t]]
                      opponentID == opponentOf(sg, playerID)
                  IN  IF v.err # ErrNil
                      THEN [games |-> after, err |-> v.err, view |-> ZeroView,
                            event |-> NoEvent]
                      ELSE [games |-> after, err |-> ErrNil, view |-> v.view,
                            event |-> IF opponentID = NoID THEN NoEvent
                                      ELSE [Type |-> EventShipPlaced, MatchID |-> matchID,
                                            PlayerID |-> playerID, TargetID |-> opponentID,
                                            Timestamp |-> t,
                                            Data |-> [Size |-> size, X |-> x, Y |-> y,
                                                      Vertical |-> vertical]]]

\* MemoryService.PlaceShip
Svc_PlaceShip(gs, matchID, playerID, size, x, y, vertical, t) ==
    IF matchID \notin DOMAIN gs
    THEN [games |-> gs, err |-> ErrMatchNotFound, view |-> ZeroView, event |-> NoEvent]
    ELSE LET sg == gs[matchID]
             orientation == IF vertical THEN Vertical ELSE Horizontal
             r == Game_PlaceShip(sg.game, playerID, [X |-> x, Y |-> y], size, orientation)
         IN  IF r.err # ErrNil
             THEN [games |-> gs, err |-> r.err, view |-> ZeroView, event |-> NoEvent]
             ELSE LET started == Game_StartGame(r.g).g
                      v == Game_GetView(started, playerID)
                      after == [gs EXCEPT ![matchID] =
                                   [sg EXCEPT !.game = started, !.updatedAt = t]]
                      opponentID == opponentOf(sg, playerID)
                  IN  IF v.err # ErrNil
                      THEN [games |-> after, err |-> v.err, view |-> ZeroView,
                            event |-> NoEvent]
                      ELSE [games |-> after, err |-> ErrNil, view |-> v.view,
                            event |-> IF opponentID = NoID THEN NoEvent
                                      ELSE [Type |-> EventShipPlaced, MatchID |-> matchID,
                                            PlayerID |-> playerID, TargetID |-> opponentID,
                                            Timestamp |-> t,
                                            Data |-> [Size |-> size, X |-> x, Y |-> y,
                                                      Vertical |-> vertical]]]

\* MemoryService.Attack
Svc_Attack(gs, matchID, playerID, x, y, t) ==
    IF matchID \notin DOMAIN gs
    THEN [games |-> gs, err |-> ErrMatchNotFound, view |-> ZeroView, event |-> NoEvent]
    ELSE LET sg == gs[matchID]
             r == Game_Attack(sg.game, playerID, [X |-> x, Y |-> y])
         IN  IF r.err # ErrNil
             THEN [games |-> gs, err |-> r.err, view |-> ZeroView, event |-> NoEvent]
             ELSE LET v == Game_GetView(r.g, playerID)
                      after == [gs EXCEPT ![matchID] =
                                   [sg EXCEPT !.game = r.g, !.updatedAt = t]]
                      opponentID == opponentOf(sg, playerID)
                      resultStr == CASE r.res = ShotResultHit  -> "hit"
                                     [] r.res = ShotResultSunk -> "sunk"
                                     [] OTHER                  -> "miss"
                  IN  IF v.err # ErrNil
                      THEN [games |-> after, err |-> v.err, view |-> ZeroView,
                            event |-> NoEvent]
                      ELSE [games |-> after, err |-> ErrNil, view |-> v.view,
                            event |-> IF opponentID = NoID THEN NoEvent
                                      ELSE [Type |-> EventAttackMade, MatchID |-> matchID,
                                            PlayerID |-> playerID, TargetID |-> opponentID,
                                            Timestamp |-> t,
                                            Data |-> [X |-> x, Y |-> y,
                                                      Result |-> resultStr]]]

\* MemoryService.GetState
Svc_GetState(gs, matchID, playerID) ==
    IF matchID \notin DOMAIN gs
    THEN [games |-> gs, err |-> ErrMatchNotFound, view |-> ZeroView]
    ELSE LET v == Game_GetView(gs[matchID].game, playerID)
         IN  [games |-> gs, err |-> v.err, view |-> v.view]

\* Durations, in minutes, the unit of the clock.
Minute == 1
Hour == 60 * Minute

\* Mutant: finished matches are kept as long as unfinished ones.
Svc_gc_StaleOnly(gs, t) ==
    LET removed(id) == t - gs[id].updatedAt > 24 * Hour
    IN  [id \in {m \in DOMAIN gs : ~removed(m)} |-> gs[id]]

\* MemoryService.gc: the registry after one sweep at time t.
Svc_gc(gs, t) ==
    LET removed(id) ==
            LET isFinished == IsGameOver(gs[id].game)
                lastUpdate == gs[id].updatedAt
            IN  IF isFinished THEN t - lastUpdate > 10 * Minute
                ELSE t - lastUpdate > 24 * Hour
    IN  [id \in {m \in DOMAIN gs : ~removed(m)} |-> gs[id]]

(***************************************************************************)
(* NotificationService                                                     *)
(***************************************************************************)
\* The key "*" of the subscribers to every match; the other keys are match
\* identifiers.
Wildcard == -1

\* make(chan *dto.GameEvent, 100)
chanCap == 100

\* s.subscribers[key]: the nil slice for a key that is not in the map.
subscribersOf(subs, key) == IF key \in DOMAIN subs THEN subs[key] ELSE <<>>

\* NotificationService.Subscribe; id is the fresh UUID.
NS_Subscribe(subs, matchID, id) ==
    (matchID :> Append(subscribersOf(subs, matchID), [id |-> id, ch |-> <<>>])) @@ subs

\* Mutant: the send has no default case and waits for room.
trySend_Blocking(ch, event) ==
    IF Len(ch) < chanCap THEN [ch |-> Append(ch, event), sent |-> TRUE, blocks |-> FALSE]
    ELSE [ch |-> ch, sent |-> FALSE, blocks |-> TRUE]

\* select { case sub.ch <- event: default: }: the send is taken when the
\* buffer has room, the default case when it has none; either way the
\* statement does not wait.
trySend(ch, event) ==
    IF Len(ch) < chanCap THEN [ch |-> Append(ch, event), sent |-> TRUE, blocks |-> FALSE]
    ELSE [ch |-> ch, sent |-> FALSE, blocks |-> FALSE]

\* NotificationService.publishToSlice: the slice afterwards, the subscribers
\* that got the event and those that lost it, and whether a send waits.
publishToSlice(event, slice) ==
    [slice   |-> [i \in DOMAIN slice |-> [slice[i] EXCEPT !.ch = trySend(@, event).ch]],
     sent    |-> {slice[i].id : i \in {j \in DOMAIN slice : trySend(slice[j].ch, event).sent}},
     dropped |-> {slice[i].id : i \in {j \in DOMAIN slice : ~trySend(slice[j].ch, event).sent}},
     blocks  |-> \E i \in DOMAIN slice : trySend(slice[i].ch, event).blocks]

\* NotificationService.Publish: first the subscribers of the event's match,
\* then those of "*".
NS_Publish(subs, event) ==
    LET first == publishToSlice(event, subscribersOf(subs, event.MatchID))
        mid == IF event.MatchID \in DOMAIN subs
               THEN [subs EXCEPT ![event.MatchID] = first.slice] ELSE subs
        second == publishToSlice(event, subscribersOf(mid, Wildcard))
        last == IF Wildcard \in DOMAIN mid
                THEN [mid EXCEPT ![Wildcard] = second.slice] ELSE mid
    IN  [subscribers |-> last,
         sent    |-> first.sent \cup second.sent,
         dropped |-> first.dropped \cup second.dropped,
         blocks  |-> first.blocks \/ second.blocks]

\* Mutant: Unsubscribe closes the channel and keeps the subscriber.
NS_Unsubscribe_Keep(subs, matchID, id) == subs

\* subscription.Unsubscribe: the channel is closed and the subscriber taken
\* out of the slice of its key.
NS_Unsubscribe(subs, matchID, id) ==
    LET slice == subscribersOf(subs, matchID)
        hit == {i \in DOMAIN slice : slice[i].id = id}
    IN  IF hit = {} THEN subs
        ELSE LET i == CHOOSE j \in hit : \A k \in hit : j <= k
             IN  [subs EXCEPT ![matchID] =
                     SubSeq(slice, 1, i - 1) \o SubSeq(slice, i + 1, Len(slice))]

(***************************************************************************)
(* Calls on the stand-alone board                                          *)
(***************************************************************************)
\* The owner of a board places ships only before the first shot: Game calls
\* Board.PlaceShip in StateSetup and Board.ReceiveShot in StatePlaying only.
NoCoord == [X |-> 0 - GridSize, Y |-> 0 - GridSize]

BRet(op, at, err, res, ok) == [op |-> op, at |-> at, err |-> err, res |-> res, ok |-> ok]

Occupied(board) ==
    Cardinality({c \in DOMAIN board.tiles : board.tiles[c].ship # NilShip})

ShotsAt(board) ==
    Cardinality({c \in DOMAIN board.tiles : board.tiles[c].isHit})

BPlaceShip(c, s, o) ==
    LET r == Board_PlaceShip(b, c, s, ShipSize(s), o)
    IN  /\ ShotsAt(b) = 0
        /\ r.err # ErrNil \/ Occupied(b) < MaxOccupied
        /\ b' = r.board
        /\ bret' = BRet("PlaceShip", NoCoord, r.err, ShotResultInvalid, FALSE)
        /\ UNCHANGED <<evVars, ctlVars, lockVars, busVars, blog, gameVars, lobbyVars>>

BReceiveShot(c) ==
    LET r == Board_ReceiveShot(b, c)
        s == tileAt(b, c.X, c.Y).ship
    IN  /\ r.res = ShotResultInvalid \/ ShotsAt(b) < MaxShots
        /\ b' = r.board
        /\ bret' = BRet("ReceiveShot", c, ErrNil, r.res, FALSE)
        /\ blog' = [shots |-> IF c.X \in Index /\ c.Y \in Index
                              THEN blog.shots \cup {<<c.X, c.Y>>} ELSE blog.shots,
                    sunk  |-> IF r.res = ShotResultSunk
                              THEN [blog.sunk EXCEPT ![s] = @ + 1] ELSE blog.sunk]
        /\ UNCHANGED <<evVars, ctlVars, lockVars, busVars, gameVars, lobbyVars>>

BAllShipsSunk ==
    /\ bret' = BRet("AllShipsSunk", NoCoord, ErrNil, ShotResultInvalid, AllShipsSunk(b))
    /\ UNCHANGED <<evVars, ctlVars, lockVars, busVars, b, blog, gameVars, lobbyVars>>

(***************************************************************************)
(* Calls on the game                                                       *)
(***************************************************************************)
GRet(op, r) == [op |-> op, err |-> r.err, res |-> r.res]

Attacks(game) ==
    IF game.player1 = NilPlayer \/ game.player2 = NilPlayer THEN 0
    ELSE ShotsAt(game.player1.board) + ShotsAt(game.player2.board)

Join(playerID, fleet) ==
    LET r == Game_Join(g, playerID, fleet)
    IN  /\ g' = r.g
        /\ gret' = GRet("Join", r)
        /\ UNCHANGED <<evVars, ctlVars, lockVars, busVars, boardVars, lobbyVars>>

PlaceShip(playerID, c, size, o) ==
    LET r == Game_PlaceShip(g, playerID, c, size, o)
    IN  /\ g' = r.g
        /\ gret' = GRet("PlaceShip", r)
        /\ UNCHANGED <<evVars, ctlVars, lockVars, busVars, boardVars, lobbyVars>>

StartGame ==
    LET r == Game_StartGame(g)
    IN  /\ g' = r.g
        /\ gret' = GRet("StartGame", r)
        /\ UNCHANGED <<evVars, ctlVars, lockVars, busVars, boardVars, lobbyVars>>

Attack(attackerID, c) ==
    LET r == Game_Attack(g, attackerID, c)
    IN  /\ r.err # ErrNil \/ Attacks(g) < MaxAttacks
        /\ g' = r.g
        /\ gret' = GRet("Attack", r)
        /\ UNCHANGED <<evVars, ctlVars, lockVars, busVars, boardVars, lobbyVars>>

GetView(observerID) ==
    LET r == Game_GetView(g, observerID)
    IN  /\ g' = r.g
        /\ gret' = GRet("GetView", r)
        /\ UNCHANGED <<evVars, ctlVars, lockVars, busVars, boardVars, lobbyVars>>

(***************************************************************************)
(* Calls on the MemoryService                                              *)
(***************************************************************************)
\* The clients: both users create matches, the second user at most
\* MaxOther of them.  They join and play the first match and ask for the
\* state of the first two.
Second == "B"
Played == {1}
Watched == {1, 2}
\* An identifier under which nothing is registered.
Unregistered == NoMatch

\* A client places the standard fleet in this order of sizes, the host in
\* rows from the top (horizontal), the guest after the host in columns from
\* the left (vertical), and shoots at the cells of the other's ships in the
\* same order.
ScriptSizes == <<5, 4, 3, 3, 2>>

ScriptCell(vertical, k, i) ==
    IF vertical THEN [X |-> k - 1, Y |-> i] ELSE [X |-> i, Y |-> k - 1]

RECURSIVE ScriptCellsFrom(_, _)
ScriptCellsFrom(vertical, k) ==
    IF k > Len(ScriptSizes) THEN <<>>
    ELSE [i \in 1 .. ScriptSizes[k] |-> ScriptCell(vertical, k, i - 1)]
             \o ScriptCellsFrom(vertical, k + 1)

RowCells == ScriptCellsFrom(FALSE, 1)
ColumnCells == ScriptCellsFrom(TRUE, 1)

ScriptCells(vertical) == IF vertical THEN ColumnCells ELSE RowCells

OffGrid == [X |-> GridSize, Y |-> 0]

\* What is kept of a return value: the error, the identifier CreateMatch
\* returned, the list ListMatches returned.
SRet(op, err, id, list) == [op |-> op, err |-> err, id |-> id, list |-> list]

HostedBy(gs, id) == Cardinality({m \in DOMAIN gs : gs[m].host = id})

CreateMatch(hostID) ==
    LET r == Svc_CreateMatch(games, uuid, hostID, now)
    IN  /\ hostID = Second => HostedBy(games, Second) < MaxOther
        /\ games' = r.games
        /\ uuid' = IF r.err = ErrNil THEN uuid + 1 ELSE uuid
        /\ sret' = SRet("CreateMatch", r.err, r.id, <<>>)
        /\ UNCHANGED <<evVars, ctlVars, lockVars, busVars, boardVars, gameVars, now, thr>>

ListMatches ==
    /\ sret' = SRet("ListMatches", ErrNil, NoMatch, Svc_ListMatches(games))
    /\ UNCHANGED <<evVars, ctlVars, lockVars, busVars, boardVars, gameVars, games, uuid, now, thr>>

JoinMatch(matchID, playerID) ==
    LET r == Svc_JoinMatch(games, matchID, playerID, now)
    IN  /\ games' = r.games
        /\ sret' = SRet("JoinMatch", r.err, NoMatch, <<>>)
        /\ UNCHANGED <<evVars, ctlVars, lockVars, busVars, boardVars, gameVars, uuid, now, thr>>

\* The board of the client that plays vertically (the guest) or horizontally
\* (the host) in a match, the empty board where there is none.
ScriptBoard(matchID, vertical) ==
    IF matchID \notin DOMAIN games THEN NewBoard
    ELSE LET p == Slot(games[matchID].game, IF vertical THEN 2 ELSE 1)
         IN  IF p = NilPlayer THEN NewBoard ELSE p.board

ShipsOn(board) == Cardinality({board.tiles[c].ship : c \in DOMAIN board.tiles} \ {NilShip})

\* The placements a client tries: the one it made last and the next one.
PlaceChoices(matchID, vertical) ==
    {ShipsOn(ScriptBoard(matchID, vertical)), ShipsOn(ScriptBoard(matchID, vertical)) + 1}
        \cap DOMAIN ScriptSizes

\* The shots a client tries: off the grid (0), the cell it shot last and the
\* next cell of the script.
ShotChoices(matchID, vertical) ==
    {0} \cup ({ShotsAt(ScriptBoard(matchID, vertical)),
               ShotsAt(ScriptBoard(matchID, vertical)) + 1}
                  \cap DOMAIN ScriptCells(vertical))

\* The k-th placement of the script, by the guest when vertical.
SPlaceShip(matchID, playerID, k, vertical) ==
    LET c == ScriptCell(vertical, k, 0)
        r == Svc_PlaceShip(games, matchID, playerID, ScriptSizes[k], c.X, c.Y, vertical, now)
    IN  /\ r.err = ErrNil
             => /\ vertical = (playerID # games[matchID].host)
                /\ vertical => ShipsOn(ScriptBoard(matchID, FALSE)) = Len(ScriptSizes)
        /\ games' = r.games
        /\ sret' = SRet("PlaceShip", r.err, NoMatch, <<>>)
        /\ UNCHANGED <<evVars, ctlVars, lockVars, busVars, boardVars, gameVars, uuid, now, thr>>

\* A shot at the k-th cell of the script for the board of the guest when
\* vertical, or off the grid for k = 0.
SAttack(matchID, playerID, k, vertical) ==
    LET c == IF k = 0 THEN OffGrid ELSE ScriptCells(vertical)[k]
        r == Svc_Attack(games, matchID, playerID, c.X, c.Y, now)
    IN  /\ r.err = ErrNil => vertical = (playerID = games[matchID].host)
        /\ games' = r.games
        /\ sret' = SRet("Attack", r.err, NoMatch, <<>>)
        /\ UNCHANGED <<evVars, ctlVars, lockVars, busVars, boardVars, gameVars, uuid, now, thr>>

GetState(matchID, playerID) ==
    LET r == Svc_GetState(games, matchID, playerID)
    IN  /\ games' = r.games
        /\ sret' = SRet("GetState", r.err, NoMatch, <<>>)
        /\ UNCHANGED <<evVars, ctlVars, lockVars, busVars, boardVars, gameVars, uuid, now, thr>>

(***************************************************************************)
(* The cleanup loop                                                        *)
(***************************************************************************)
\* The first user hosts matches, the second joins the first match and the
\* two play it to the end by the script, every call succeeding; meanwhile
\* the clock moves on and the cleanup loop sweeps.
First == "A"

\* The instants the clock is read at: the start, 10 minutes, 1 hour, 24
\* hours and 25 hours later.
Instants == {1, 1 + 10 * Minute, 1 + Hour, 1 + 24 * Hour, 1 + 25 * Hour}

GCreateMatch ==
    /\ uuid < MaxMatches
    /\ CreateMatch(First)

GJoinMatch ==
    /\ JoinMatch(1, Second)
    /\ sret'.err = ErrNil

GPlaceShip ==
    \E playerID \in IDs, vertical \in BOOLEAN :
        \E k \in PlaceChoices(1, vertical) :
            /\ SPlaceShip(1, playerID, k, vertical)
            /\ sret'.err = ErrNil

GAttack ==
    \E playerID \in IDs, vertical \in BOOLEAN :
        \E k \in ShotChoices(1, vertical) :
            /\ SAttack(1, playerID, k, vertical)
            /\ sret'.err = ErrNil

\* time.Now() returns a later instant.
Tick(t) ==
    /\ t > now
    /\ now' = t
    /\ UNCHANGED <<evVars, ctlVars, lockVars, busVars, boardVars, gameVars, games, uuid, sret, thr>>

\* One round of cleanupLoop.
Gc ==
    /\ games' = Svc_gc(games, now)
    /\ sret' = SRet("gc", ErrNil, NoMatch, <<>>)
    /\ UNCHANGED <<evVars, ctlVars, lockVars, busVars, boardVars, gameVars, uuid, now, thr>>

(***************************************************************************)
(* Calls on the NotificationService                                        *)
(***************************************************************************)
\* The identifiers Subscribe draws, the keys subscribed to and the event the
\* service publishes.
SubIDs == {"s1", "s2"}
Keys == {1, Wildcard}
Announced == [Type |-> EventAttackMade, MatchID |-> 1]

Subscribed(subs) == UNION {{subs[k][i].id : i \in DOMAIN subs[k]} : k \in DOMAIN subs}

NSubscribe(matchID, id) ==
    /\ id \notin Subscribed(subscribers)
    /\ subscribers' = NS_Subscribe(subscribers, matchID, id)
    /\ UNCHANGED <<evVars, ctlVars, lockVars, boardVars, gameVars, lobbyVars, nret>>

NPublish(event) ==
    LET r == NS_Publish(subscribers, event)
    IN  /\ ~r.blocks
        /\ subscribers' = r.subscribers
        /\ nret' = [op |-> "Publish", dropped |-> r.dropped]
        /\ UNCHANGED <<evVars, ctlVars, lockVars, boardVars, gameVars, lobbyVars>>

\* The reader of a subscription takes the next event off its channel.
NReceive(matchID, id) ==
    \E i \in DOMAIN subscribersOf(subscribers, matchID) :
        /\ subscribers[matchID][i].id = id
        /\ subscribers[matchID][i].ch # <<>>
        /\ subscribers' = [subscribers EXCEPT ![matchID][i].ch = Tail(@)]
        /\ UNCHANGED <<evVars, ctlVars, lockVars, boardVars, gameVars, lobbyVars, nret>>

NUnsubscribe(matchID, id) ==
    /\ \E i \in DOMAIN subscribersOf(subscribers, matchID) : subscribers[matchID][i].id = id
    /\ subscribers' = NS_Unsubscribe(subscribers, matchID, id)
    /\ UNCHANGED <<evVars, ctlVars, lockVars, boardVars, gameVars, lobbyVars, nret>>

(***************************************************************************)
(* JoinMatch calls of concurrent threads                                   *)
(***************************************************************************)
\* A thread makes one JoinMatch call.  The call holds the registry's read
\* lock from its first step to its last and takes no other lock, so between
\* any two of its steps other threads run; CreateMatch needs the registry's
\* write lock and runs only while no call is under way.  thr[t] holds the
\* position of the call, its arguments, the case Game.Join chose (slot) and
\* the error returned.
Idle == [pc |-> "idle", matchID |-> NoMatch, playerID |-> NoID, slot |-> 0, err |-> ErrNil]

InCall(t) == thr[t].pc \notin {"idle", "done"}

\* The one match the threads race for.
JCreateMatch(hostID) ==
    /\ \A t \in Threads : ~InCall(t)
    /\ games = <<>>
    /\ CreateMatch(hostID)

\* s.getSafeGame(matchID)
JLookup(t, matchID, playerID) ==
    /\ thr[t].pc = "idle"
    /\ thr' = [thr EXCEPT ![t] =
                  IF matchID \in DOMAIN games
                  THEN [Idle EXCEPT !.pc = "join", !.matchID = matchID, !.playerID = playerID]
                  ELSE [Idle EXCEPT !.pc = "done", !.matchID = matchID, !.playerID = playerID,
                                    !.err = ErrMatchNotFound]]
    /\ UNCHANGED <<evVars, ctlVars, lockVars, busVars, boardVars, gameVars, games, uuid, now, sret>>

\* Game.Join: the switch reads the two slots and picks its case.
JCheck(t) ==
    LET game == games[thr[t].matchID].game
    IN  /\ thr[t].pc = "join"
        /\ thr' = [thr EXCEPT ![t] =
                      IF game.player1 = NilPlayer THEN [@ EXCEPT !.pc = "write", !.slot = 1]
                      ELSE IF game.player2 = NilPlayer THEN [@ EXCEPT !.pc = "write", !.slot = 2]
                      ELSE [@ EXCEPT !.pc = "done", !.err = ErrGameFull]]
        /\ UNCHANGED <<evVars, ctlVars, lockVars, busVars, boardVars, gameVars, games, uuid, now, sret>>

\* Game.Join: the body of the case picked.
JWrite(t) ==
    LET m == thr[t].matchID
        p == NewPlayer(thr[t].playerID, NilFleet)
    IN  /\ thr[t].pc = "write"
        /\ games' = [games EXCEPT ![m].game =
                        IF thr[t].slot = 1 THEN [@ EXCEPT !.player1 = p]
                        ELSE [@ EXCEPT !.player2 = p, !.state = StateSetup]]
        /\ thr' = [thr EXCEPT ![t].pc = "stamp"]
        /\ UNCHANGED <<evVars, ctlVars, lockVars, busVars, boardVars, gameVars, uuid, now, sret>>

\* game.guest = playerID; game.updatedAt = time.Now()
JStamp(t) ==
    /\ thr[t].pc = "stamp"
    /\ games' = [games EXCEPT ![thr[t].matchID] =
                    [@ EXCEPT !.guest = thr[t].playerID, !.updatedAt = now]]
    /\ thr' = [thr EXCEPT ![t].pc = "view"]
    /\ UNCHANGED <<evVars, ctlVars, lockVars, busVars, boardVars, gameVars, uuid, now, sret>>

\* return game.game.GetView(playerID)
JView(t) ==
    /\ thr[t].pc = "view"
    /\ thr' = [thr EXCEPT ![t] =
                  [@ EXCEPT !.pc = "done",
                            !.err = Game_GetView(games[thr[t].matchID].game,
                                                 thr[t].playerID).err]]
    /\ UNCHANGED <<evVars, ctlVars, lockVars, busVars, boardVars, gameVars, games, uuid, now, sret>>

(***************************************************************************)
(* MemoryService calls of concurrent goroutines, lock by lock              *)
(***************************************************************************)
\* Two clients call the service while the cleanup goroutine sweeps.  Every
\* step of a call up to its next lock operation is one action.  The clock
\* stands still here, so a sweep finds nothing to delete.
Clients == {"c1", "c2"}
Cleaner == "gc"
Goroutines == Clients \cup {Cleaner}
NoOne == "none"
Matches == 1 .. MaxMatches

\* sync.RWMutex: RLock waits while a writer holds the lock or waits for it;
\* Lock announces itself, then waits until no reader and no writer is left.
NewRWMutex == [readers |-> [t \in Goroutines |-> 0], writer |-> NoOne, waiting |-> {}]
canRLock(mu) == mu.writer = NoOne /\ mu.waiting = {}
RW_RLock(mu, t) == [mu EXCEPT !.readers[t] = @ + 1]
RW_RUnlock(mu, t) == [mu EXCEPT !.readers[t] = @ - 1]
RW_Announce(mu, t) == [mu EXCEPT !.waiting = @ \cup {t}]
canLock(mu) == mu.writer = NoOne /\ \A u \in Goroutines : mu.readers[u] = 0
RW_Lock(mu, t) == [mu EXCEPT !.writer = t, !.waiting = @ \ {t}]
RW_Unlock(mu) == [mu EXCEPT !.writer = NoOne]

\* The calls on one match and the calls that visit every match.
GameplayOps == {"JoinMatch", "PlaceShip", "Attack", "GetState"}
LockedOps == {"PlaceShip", "Attack", "GetState"}
SweepOps == {"CreateMatch", "ListMatches", "gc"}

\* What a goroutine keeps of its call: the method, its position in it, the
\* match and the player it is about, the matches a loop has still to visit,
\* the local count of countActiveGamesByHost (of the calls made so far for a
\* goroutine that attacks), the result of ReceiveShot, and the game as
\* Game.Attack found it.
LIdle == [op |-> "none", pc |-> "idle", matchID |-> NoMatch, todo |-> {}, count |-> 0,
          playerID |-> NoID, res |-> ShotResultInvalid, pre |-> NewGame,
          started |-> 0, isFinished |-> FALSE, lastUpdate |-> 0]

\* for id, g := range s.games: the loop goes on with any match not yet
\* visited and stops at g.mu.Lock(), or ends.
Advance(c, remaining) ==
    IF remaining = {}
    THEN {[c EXCEPT !.pc = "end", !.matchID = NoMatch, !.todo = {}]}
    ELSE {[c EXCEPT !.pc = "mlock", !.matchID = m, !.todo = remaining \ {m}] :
             m \in remaining}

\* A goroutine enters a call.  The cleanup goroutine runs gc and nothing
\* else; a client creates a match only while fewer than MaxMatches exist or
\* are being created.
LStart(t, op, matchID) ==
    /\ call[t].pc = "idle"
    /\ (t = Cleaner) = (op = "gc")
    /\ op \in GameplayOps <=> matchID # NoMatch
    /\ op = "CreateMatch"
          => uuid + Cardinality({u \in Clients : call[u].op = "CreateMatch"}) < MaxMatches
    /\ call' = [call EXCEPT ![t] =
                   [LIdle EXCEPT !.op = op, !.matchID = matchID,
                                 !.pc = CASE op = "JoinMatch" -> "outer"
                                          [] op = "gc"        -> "ask"
                                          [] OTHER            -> "rlock"]]
    /\ UNCHANGED <<evVars, ctlVars, busVars, boardVars, gameVars, lobbyVars, gamesMu, mus>>

\* s.gamesMu.RLock(): in JoinMatch itself, in getSafeGame, in
\* countActiveGamesByHost and in ListMatches.
LRLock(t) ==
    /\ call[t].pc \in {"outer", "rlock"}
    /\ canRLock(gamesMu)
    /\ gamesMu' = RW_RLock(gamesMu, t)
    /\ \E c \in IF call[t].pc = "outer" THEN {[call[t] EXCEPT !.pc = "rlock"]}
               ELSE IF call[t].op \in GameplayOps THEN {[call[t] EXCEPT !.pc = "rheld"]}
               ELSE Advance(call[t], DOMAIN games) :
          call' = [call EXCEPT ![t] = c]
    /\ UNCHANGED <<evVars, ctlVars, busVars, boardVars, gameVars, lobbyVars, mus>>

\* getSafeGame reads the map and gives the read lock back; without the
\* match the call returns, JoinMatch giving back its own read lock too.
LLookup(t) ==
    LET c == call[t]
        inner == RW_RUnlock(gamesMu, t)
    IN  /\ c.pc = "rheld"
        /\ IF c.matchID \in DOMAIN games
           THEN /\ gamesMu' = inner
                /\ call' = [call EXCEPT ![t].pc =
                               IF c.op = "JoinMatch" THEN "join" ELSE "mlock"]
           ELSE /\ gamesMu' = IF c.op = "JoinMatch" THEN RW_RUnlock(inner, t) ELSE inner
                /\ call' = [call EXCEPT ![t] = LIdle]
        /\ UNCHANGED <<evVars, ctlVars, busVars, boardVars, gameVars, lobbyVars, mus>>

\* Mutant: the lock of the match is taken without waiting for it.
LMuLock_NoWait(t) ==
    /\ call[t].pc = "mlock"
    /\ mus' = [mus EXCEPT ![call[t].matchID] = t]
    /\ call' = [call EXCEPT ![t].pc = "held"]
    /\ UNCHANGED <<evVars, ctlVars, busVars, boardVars, gameVars, lobbyVars, gamesMu>>

\* sg.mu.Lock()
LMuLock(t) ==
    /\ call[t].pc = "mlock"
    /\ mus[call[t].matchID] = NoOne
    /\ mus' = [mus EXCEPT ![call[t].matchID] = t]
    /\ call' = [call EXCEPT ![t].pc = "held"]
    /\ UNCHANGED <<evVars, ctlVars, busVars, boardVars, gameVars, lobbyVars, gamesMu>>

\* PlaceShip, Attack and GetState under the lock of the match, up to the
\* deferred sg.mu.Unlock().  The host places the first ship of the script,
\* shoots at the first cell of the script, or looks at the match.
LBody(t) ==
    LET c == call[t]
        at == ScriptCell(FALSE, 1, 0)
        target == ScriptCells(TRUE)[1]
        r == CASE c.op = "PlaceShip" ->
                      Svc_PlaceShip(games, c.matchID, First, ScriptSizes[1],
                                    at.X, at.Y, FALSE, now)
               [] c.op = "Attack" ->
                      Svc_Attack(games, c.matchID, First, target.X, target.Y, now)
               [] OTHER -> Svc_GetState(games, c.matchID, First)
    IN  /\ c.pc = "held"
        /\ c.op \in LockedOps
        /\ games' = r.games
        /\ mus' = [mus EXCEPT ![c.matchID] = NoOne]
        /\ call' = [call EXCEPT ![t] = LIdle]
        /\ UNCHANGED <<evVars, ctlVars, busVars, boardVars, gameVars, uuid, now, sret, thr, gamesMu>>

\* The body of a loop over the matches: countActiveGamesByHost counts the
\* match, ListMatches appends its summary, gc deletes it when it is due;
\* each gives the lock of the match back and goes on.
LVisit(t) ==
    LET c == call[t]
        m == c.matchID
        isHost == games[m].host = First
        isGameOver == IsGameOver(games[m].game)
        counted == IF c.op = "CreateMatch" /\ isHost /\ ~isGameOver
                   THEN [c EXCEPT !.count = @ + 1] ELSE c
        kept == IF c.op = "gc"
                THEN (DOMAIN games \ {m}) \cup DOMAIN Svc_gc((m :> games[m]), now)
                ELSE DOMAIN games
    IN  /\ c.pc = "held"
        /\ c.op \in SweepOps
        /\ games' = [id \in kept |-> games[id]]
        /\ mus' = [mus EXCEPT ![m] = NoOne]
        /\ \E d \in Advance(counted, c.todo) : call' = [call EXCEPT ![t] = d]
        /\ UNCHANGED <<evVars, ctlVars, busVars, boardVars, gameVars, uuid, now, sret, thr, gamesMu>>

\* After the loop: ListMatches returns and countActiveGamesByHost returns,
\* their deferred RUnlock running; gc returns, its deferred Unlock running.
\* CreateMatch goes on unless the host is at the limit.
LEnd(t) ==
    LET c == call[t]
    IN  /\ c.pc = "end"
        /\ gamesMu' = IF c.op = "gc" THEN RW_Unlock(gamesMu) ELSE RW_RUnlock(gamesMu, t)
        /\ call' = [call EXCEPT ![t] =
                       IF c.op = "CreateMatch" /\ c.count < maxGamesPerUser
                       THEN [c EXCEPT !.pc = "ask"]
                       ELSE LIdle]
        /\ UNCHANGED <<evVars, ctlVars, busVars, boardVars, gameVars, lobbyVars, mus>>

\* s.gamesMu.Lock(), first half: from now on new readers wait.
LAsk(t) ==
    /\ call[t].pc = "ask"
    /\ gamesMu' = RW_Announce(gamesMu, t)
    /\ call' = [call EXCEPT ![t].pc = "wait"]
    /\ UNCHANGED <<evVars, ctlVars, busVars, boardVars, gameVars, lobbyVars, mus>>

\* s.gamesMu.Lock(), second half: the readers and the writer have left.
LLock(t) ==
    /\ call[t].pc = "wait"
    /\ canLock(gamesMu)
    /\ gamesMu' = RW_Lock(gamesMu, t)
    /\ \E c \in IF call[t].op = "gc" THEN Advance(call[t], DOMAIN games)
               ELSE {[call[t] EXCEPT !.pc = "insert"]} :
          call' = [call EXCEPT ![t] = c]
    /\ UNCHANGED <<evVars, ctlVars, busVars, boardVars, gameVars, lobbyVars, mus>>

\* s.games[gameID] = sg; s.gamesMu.Unlock()
LInsert(t) ==
    LET gameID == uuid + 1
        j == Game_Join(NewGame, First, StandardFleet)
        sg == [id |-> gameID, game |-> j.g, createdAt |-> now, updatedAt |-> now,
               host |-> First, guest |-> NoID]
    IN  /\ call[t].pc = "insert"
        /\ games' = (gameID :> sg) @@ games
        /\ uuid' = gameID
        /\ gamesMu' = RW_Unlock(gamesMu)
        /\ call' = [call EXCEPT ![t] = LIdle]
        /\ UNCHANGED <<evVars, ctlVars, busVars, boardVars, gameVars, now, sret, thr, mus>>

\* game.game.Join(playerID, nil) in JoinMatch, by the second user.
LJoin(t) ==
    LET m == call[t].matchID
        j == Game_Join(games[m].game, Second, NilFleet)
    IN  /\ call[t].pc = "join"
        /\ IF j.err # ErrNil
           THEN /\ gamesMu' = RW_RUnlock(gamesMu, t)
                /\ call' = [call EXCEPT ![t] = LIdle]
                /\ games' = games
           ELSE /\ games' = [games EXCEPT ![m].game = j.g]
                /\ call' = [call EXCEPT ![t].pc = "stamp"]
                /\ gamesMu' = gamesMu
        /\ UNCHANGED <<evVars, ctlVars, busVars, boardVars, gameVars, uuid, now, sret, thr, mus>>

\* game.guest = playerID; game.updatedAt = time.Now(); the view is read and
\* JoinMatch returns, its deferred RUnlock running.
LStamp(t) ==
    LET m == call[t].matchID
    IN  /\ call[t].pc = "stamp"
        /\ games' = [games EXCEPT ![m] = [@ EXCEPT !.guest = Second, !.updatedAt = now]]
        /\ gamesMu' = RW_RUnlock(gamesMu, t)
        /\ call' = [call EXCEPT ![t] = LIdle]
        /\ UNCHANGED <<evVars, ctlVars, busVars, boardVars, gameVars, uuid, now, sret, thr, mus>>

(***************************************************************************)
(* Attack calls of concurrent goroutines on one match                      *)
(***************************************************************************)
\* The first match is set up by the script, one call after the other; then
\* the clients attack in it at the same time, each of them up to MaxCalls
\* times, as the host or as the guest, never twice at the same cell.
Arena == 1

InPlay == Arena \in DOMAIN games /\ games[Arena].game.state # StateWaiting
              /\ games[Arena].game.state # StateSetup

ASetup ==
    /\ ~InPlay
    /\ \/ uuid = 0 /\ GCreateMatch
       \/ GJoinMatch
       \/ GPlaceShip

\* The cell of the n-th call of a client: the clients shoot along different
\* rows.
Target(t, n) == [X |-> n - 1, Y |-> IF t = "c1" THEN 0 ELSE 1]

AStart(t, attackerID) ==
    /\ InPlay
    /\ call[t].pc = "idle"
    /\ call[t].count < MaxCalls
    /\ call' = [call EXCEPT ![t] =
                   [@ EXCEPT !.op = "Attack", !.pc = "rlock", !.matchID = Arena,
                             !.playerID = attackerID, !.count = @ + 1]]
    /\ UNCHANGED <<evVars, ctlVars, busVars, boardVars, gameVars, lobbyVars, gamesMu, mus>>

\* The call returns err: the deferred sg.mu.Unlock() runs.
AReturn(t, err) ==
    /\ mus' = [mus EXCEPT ![call[t].matchID] = NoOne]
    /\ call' = [call EXCEPT ![t] = [LIdle EXCEPT !.count = call[t].count]]
    /\ sret' = SRet("Attack", err, NoMatch, <<>>)

\* Game.Attack: the switch on the state, the attacker and the turn.
ACheck(t) ==
    LET c == call[t]
        game == games[c.matchID].game
        err == IF game.state # StatePlaying THEN ErrNotInPlay
               ELSE IF getPlayerByID(game, c.playerID) = 0 THEN ErrUnknownPlayer
               ELSE IF game.turn # c.playerID THEN ErrNotYourTurn
               ELSE ErrNil
    IN  /\ c.pc = "held"
        /\ c.op = "Attack"
        /\ IF err # ErrNil
           THEN AReturn(t, err)
           ELSE /\ call' = [call EXCEPT ![t] = [c EXCEPT !.pc = "shoot", !.pre = game]]
                /\ UNCHANGED <<evVars, ctlVars, mus, sret>>
        /\ UNCHANGED <<evVars, ctlVars, busVars, boardVars, gameVars, games, uuid, now, thr, gamesMu>>

\* Game.Attack: d.board.ReceiveShot(c) on the board of the opponent.
AShoot(t) ==
    LET c == call[t]
        game == games[c.matchID].game
        n == getOpponent(game, c.playerID)
        d == Slot(game, n)
        r == Board_ReceiveShot(d.board, Target(t, c.count))
    IN  /\ c.pc = "shoot"
        /\ IF n = 0
           THEN AReturn(t, ErrNotYourTurn) /\ games' = games
           ELSE IF r.res = ShotResultInvalid
           THEN AReturn(t, ErrInvalidShot) /\ games' = games
           ELSE /\ games' = [games EXCEPT ![c.matchID].game =
                                SetSlot(game, n, [d EXCEPT !.board = r.board])]
                /\ call' = [call EXCEPT ![t] = [c EXCEPT !.pc = "pass", !.res = r.res]]
                /\ UNCHANGED <<evVars, ctlVars, mus, sret>>
        /\ UNCHANGED <<evVars, ctlVars, busVars, boardVars, gameVars, uuid, now, thr, gamesMu>>

\* Game.Attack: the game ends or the turn passes; then MemoryService.Attack
\* stamps the match, reads the view and returns.
APass(t) ==
    LET c == call[t]
        game == games[c.matchID].game
        d == Slot(game, getOpponent(game, c.playerID))
        after == IF c.res = ShotResultSunk /\ AllShipsSunk(d.board)
                 THEN [game EXCEPT !.state = StateGameOver, !.winner = c.playerID]
                 ELSE passTurn(game)
    IN  /\ c.pc = "pass"
        /\ games' = [games EXCEPT ![c.matchID] =
                        [@ EXCEPT !.game = after, !.updatedAt = now]]
        /\ AReturn(t, Game_GetView(after, c.playerID).err)
        /\ UNCHANGED <<evVars, ctlVars, busVars, boardVars, gameVars, uuid, now, thr, gamesMu>>

(***************************************************************************)
(* The sweep of gc beside gameplay calls                                   *)
(***************************************************************************)
\* gc takes the write lock of the registry and reads the clock once
\* (started); for every match it reads isFinished and lastUpdate under the
\* mutex of the match, gives that mutex back, and then decides on the
\* values it read.  A gameplay call that found the match before the sweep
\* took the write lock holds the pointer and runs on the mutex of the match
\* alone.
WLock(t) ==
    /\ call[t].pc = "wait"
    /\ call[t].op = "gc"
    /\ canLock(gamesMu)
    /\ gamesMu' = RW_Lock(gamesMu, t)
    /\ \E c \in Advance([call[t] EXCEPT !.started = now], DOMAIN games) :
          call' = [call EXCEPT ![t] = c]
    /\ UNCHANGED <<evVars, ctlVars, busVars, boardVars, gameVars, lobbyVars, mus>>

\* g.mu.Lock(); isFinished := g.game.IsGameOver(); lastUpdate := g.updatedAt;
\* g.mu.Unlock()
WRead(t) ==
    LET c == call[t]
    IN  /\ c.pc = "held"
        /\ c.op = "gc"
        /\ mus' = [mus EXCEPT ![c.matchID] = NoOne]
        /\ call' = [call EXCEPT ![t] =
                       [c EXCEPT !.pc = "decide",
                                 !.isFinished = IsGameOver(games[c.matchID].game),
                                 !.lastUpdate = games[c.matchID].updatedAt]]
        /\ UNCHANGED <<evVars, ctlVars, busVars, boardVars, gameVars, lobbyVars, gamesMu>>

\* The two if statements on isFinished and now.Sub(lastUpdate), and the
\* delete.
WDecide(t) ==
    LET c == call[t]
        remove == IF c.isFinished THEN c.started - c.lastUpdate > 10 * Minute
                  ELSE c.started - c.lastUpdate > 24 * Hour
    IN  /\ c.pc = "decide"
        /\ games' = [id \in DOMAIN games \ (IF remove THEN {c.matchID} ELSE {}) |-> games[id]]
        /\ \E d \in Advance(c, c.todo) : call' = [call EXCEPT ![t] = d]
        /\ UNCHANGED <<evVars, ctlVars, busVars, boardVars, gameVars, uuid, now, sret, thr, gamesMu, mus>>

\* A gameplay call whose match the sweep has deleted goes on with the
\* safeGame it holds, which the registry no longer knows.
WOrphan(t) ==
    LET c == call[t]
    IN  /\ c.pc \in {"mlock", "held"}
        /\ c.op \in LockedOps
        /\ c.matchID \notin DOMAIN games
        /\ c.pc = "mlock" => mus[c.matchID] = NoOne
        /\ mus' = [mus EXCEPT ![c.matchID] = NoOne]
        /\ call' = [call EXCEPT ![t] = LIdle]
        /\ UNCHANGED <<evVars, ctlVars, busVars, boardVars, gameVars, lobbyVars, gamesMu>>

NextSweep ==
    \/ ASetup
    \/ \E t \in Instants : InPlay /\ Tick(t)
    \/ \E t \in Clients : InPlay /\ LStart(t, "Attack", Arena)
    \/ LStart(Cleaner, "gc", NoMatch)
    \/ \E t \in Clients : LRLock(t)
    \/ \E t \in Clients : LLookup(t)
    \/ \E t \in Goroutines : call[t].matchID \in DOMAIN games /\ LMuLock(t)
    \/ \E t \in Clients : call[t].matchID \in DOMAIN games /\ LBody(t)
    \/ \E t \in Clients : WOrphan(t)
    \/ LAsk(Cleaner)
    \/ WLock(Cleaner)
    \/ WRead(Cleaner)
    \/ WDecide(Cleaner)
    \/ LEnd(Cleaner)

(***************************************************************************)
(* CreateMatch calls of concurrent goroutines                              *)
(***************************************************************************)
\* CreateMatch counts the matches of the host under the read lock of the
\* registry, gives the lock back and takes the write lock to insert: other
\* calls run between the two halves.  The clients create matches at the
\* same time until one more than the limit has been asked for.
Asked == uuid + Cardinality({u \in Clients : call[u].pc = "insert"})

\* if count := s.countActiveGamesByHost(hostID); count >= maxGamesPerUser
CCount(t, hostID) ==
    LET count == countActiveGamesByHost(games, hostID)
    IN  /\ call[t].pc = "idle"
        /\ Asked < maxGamesPerUser + 1
        /\ IF count >= maxGamesPerUser
           THEN /\ sret' = SRet("CreateMatch", ErrLimit, NoMatch, <<>>)
                /\ call' = call
           ELSE /\ call' = [call EXCEPT ![t] =
                               [LIdle EXCEPT !.op = "CreateMatch", !.pc = "insert",
                                             !.playerID = hostID, !.count = count]]
                /\ sret' = sret
        /\ UNCHANGED <<evVars, ctlVars, busVars, boardVars, gameVars, games, uuid, now, thr, gamesMu, mus>>

\* The match is built and, under the write lock, put into the registry.
CInsert(t) ==
    LET gameID == uuid + 1
        j == Game_Join(NewGame, call[t].playerID, StandardFleet)
        sg == [id |-> gameID, game |-> j.g, createdAt |-> now, updatedAt |-> now,
               host |-> call[t].playerID, guest |-> NoID]
    IN  /\ call[t].pc = "insert"
        /\ games' = (gameID :> sg) @@ games
        /\ uuid' = gameID
        /\ call' = [call EXCEPT ![t] = LIdle]
        /\ sret' = SRet("CreateMatch", ErrNil, gameID, <<>>)
        /\ UNCHANGED <<evVars, ctlVars, busVars, boardVars, gameVars, now, thr, gamesMu, mus>>

(***************************************************************************)
(* Subscriptions of the NotificationService and their channels             *)
(***************************************************************************)
\* The events a channel holds while the subscriptions are followed.
MaxQueued == 2

\* subscription.Unsubscribe: the subscribers whose channel it closes, the one
\* with the id of the subscription when the slice of its match has it.
NS_Closed(subs, matchID, id) ==
    LET slice == subscribersOf(subs, matchID)
    IN  IF \E i \in DOMAIN slice : slice[i].id = id THEN {id} ELSE {}

\* Subscribe hands out a subscription with a new id.
USubscribe(matchID, id) ==
    /\ id \notin DOMAIN handles
    /\ subscribers' = NS_Subscribe(subscribers, matchID, id)
    /\ handles' = (id :> [matchID |-> matchID, closed |-> 0]) @@ handles
    /\ nret' = [op |-> "Subscribe", dropped |-> {}]
    /\ UNCHANGED <<ebus, ctlVars, lockVars, boardVars, gameVars, lobbyVars>>

\* Unsubscribe on a subscription handed out before, any number of times.
UUnsubscribe(id) ==
    LET matchID == handles[id].matchID
    IN  /\ id \in DOMAIN handles
        /\ subscribers' = NS_Unsubscribe(subscribers, matchID, id)
        /\ handles' = [handles EXCEPT ![id].closed =
                          @ + Cardinality(NS_Closed(subscribers, matchID, id))]
        /\ nret' = [op |-> "Unsubscribe", dropped |-> {}]
        /\ UNCHANGED <<ebus, ctlVars, lockVars, boardVars, gameVars, lobbyVars>>

\* The events published: an attack in match 1 and one in match 2.
Published == {Announced, [Announced EXCEPT !.MatchID = 2]}

UPublish(event) ==
    /\ \A k \in DOMAIN subscribers :
           \A i \in DOMAIN subscribers[k] : Len(subscribers[k][i].ch) < MaxQueued
    /\ NPublish(event)

NextUnsub ==
    \/ \E matchID \in Keys, id \in SubIDs : USubscribe(matchID, id)
    \/ \E id \in SubIDs : UUnsubscribe(id)
    \/ \E event \in Published : UPublish(event)
    \/ \E matchID \in Keys, id \in SubIDs : NReceive(matchID, id)

(***************************************************************************)
(* The MemoryEventBus and the handlers it starts                           *)
(***************************************************************************)
\* The events published while the handlers are followed.
MaxEvents == 2

\* events.NewMemoryEventBus.  Beside the fields of the bus: the handler
\* goroutines Publish has started and that have not run yet (running), the
\* events each subscriber has handled, in order (handled), and the number
\* of events published.
NewMemoryEventBus ==
    [subscribers |-> <<>>, closed |-> FALSE, running |-> {}, handled |-> <<>>,
     published |-> 0]

\* MemoryEventBus.Subscribe
Bus_Subscribe(bus, matchID, id) ==
    [bus EXCEPT !.subscribers = (matchID :> Append(subscribersOf(@, matchID), id)) @@ @,
                !.handled = (id :> <<>>) @@ @]

\* MemoryEventBus.Publish: go sub.handler(event) for the subscribers of the
\* match and of the wildcard.
Bus_Publish(bus, event) ==
    LET to == subscribersOf(bus.subscribers, event.MatchID)
                  \o subscribersOf(bus.subscribers, Wildcard)
    IN  IF bus.closed THEN bus
        ELSE [bus EXCEPT !.running = @ \cup {[id |-> to[i], event |-> event] :
                                                i \in DOMAIN to}]

\* MemoryEventBus.Close
Bus_Close(bus) == [bus EXCEPT !.closed = TRUE, !.subscribers = <<>>]

ESubscribe(matchID, id) ==
    /\ id \notin DOMAIN ebus.handled
    /\ ebus' = Bus_Subscribe(ebus, matchID, id)
    /\ UNCHANGED <<handles, ctlVars, lockVars, busVars, boardVars, gameVars, lobbyVars>>

\* The registry publishes the next event of a match.
EPublish(matchID) ==
    /\ ebus.published < MaxEvents
    /\ ebus' = [Bus_Publish(ebus, [MatchID |-> matchID, Seq |-> ebus.published + 1])
                   EXCEPT !.published = @ + 1]
    /\ UNCHANGED <<handles, ctlVars, lockVars, busVars, boardVars, gameVars, lobbyVars>>

\* A handler goroutine is scheduled and runs.
EHandle(id, event) ==
    /\ [id |-> id, event |-> event] \in ebus.running
    /\ ebus' = [ebus EXCEPT !.running = @ \ {[id |-> id, event |-> event]},
                            !.handled[id] = Append(@, event)]
    /\ UNCHANGED <<handles, ctlVars, lockVars, busVars, boardVars, gameVars, lobbyVars>>

EClose ==
    /\ ~ebus.closed
    /\ ebus' = Bus_Close(ebus)
    /\ UNCHANGED <<handles, ctlVars, lockVars, busVars, boardVars, gameVars, lobbyVars>>

NextEvents ==
    \/ \E matchID \in Keys, id \in SubIDs : ESubscribe(matchID, id)
    \/ \E matchID \in Matches : EPublish(matchID)
    \/ \E r \in ebus.running : EHandle(r.id, r.event)
    \/ EClose

(***************************************************************************)
(* The Player-based model (model.go) and its Controller                    *)
(***************************************************************************)
gridSize == 10

ResultInvalid == -1
ResultMiss == 1
ResultHit == 2
ResultSunk == 3

\* model.Horizontal of this model.
Across == 1

ErrOutOfBounds == "coordinates are out of bounds"
ErrShipTypeDepleted == "no remaining ships of this type to place"
ErrFleetIncomplete == "not all ships have been placed"
ErrRepeatedHit == "already hit this ship location"
ErrWrongGamePhase == "action is not allowed in this phase"
ErrGameOver == "game is already over"

PhaseWaiting == "Lobby"
PhaseSetup == "Setup"
PhasePlay == "Play"
PhaseGameOver == "GameOver"

\* The ship types in the order of their declaration, and ShipType.Size.
ShipTypes == <<"Carrier", "Battleship", "Cruiser", "Submarine", "Destroyer">>
TypeSize(sType) ==
    CASE sType = "Carrier"    -> 5
      [] sType = "Battleship" -> 4
      [] sType = "Cruiser"    -> 3
      [] sType = "Submarine"  -> 3
      [] sType = "Destroyer"  -> 2
      [] OTHER                -> 0

\* A cell of the grid: shipRef is the type of the ship on it (a player has
\* one ship of each type), NoShip for water.  The grid keeps the cells that
\* were written; the others are zero cells.
NoShip == ""
ZeroCell == [isHit |-> FALSE, shipRef |-> NoShip]

inBounds(c) == c.X >= 0 /\ c.X < gridSize /\ c.Y >= 0 /\ c.Y < gridSize

cellAt(p, c) == IF <<c.X, c.Y>> \in DOMAIN p.board THEN p.board[<<c.X, c.Y>>] ELSE ZeroCell

\* calculateSegments of types.go: Vector is (1, 0) for Horizontal and (0, 1)
\* for every other value.
segmentsOf(start, size, o) ==
    LET dx == IF o = Across THEN 1 ELSE 0
        dy == IF o = Across THEN 0 ELSE 1
    IN  [i \in 1 .. size |-> [X |-> start.X + (i - 1) * dx, Y |-> start.Y + (i - 1) * dy]]

startingInventory == [t \in {ShipTypes[i] : i \in DOMAIN ShipTypes} |-> 1]

\* model.NewPlayer; ships holds Hits and IsSunk of the ships placed.
NewPlayerM(id) ==
    [id |-> id, board |-> <<>>, ships |-> <<>>, tracking |-> <<>>, shipsAfloat |-> 0,
     isReady |-> FALSE, inventory |-> startingInventory]

PRet(player, err, res) == [p |-> player, err |-> err, res |-> res]

\* Player.PlaceShip
Player_PlaceShip(p, sType, start, o) ==
    LET segments == segmentsOf(start, TypeSize(sType), o)
        cells == {<<segments[i].X, segments[i].Y>> : i \in DOMAIN segments}
    IN  IF ~inBounds(segments[Len(segments)]) THEN PRet(p, ErrOutOfBounds, ResultInvalid)
        ELSE IF \E i \in DOMAIN segments :
                    ~inBounds(segments[i]) \/ cellAt(p, segments[i]).shipRef # NoShip
        THEN PRet(p, ErrShipOverlap, ResultInvalid)
        ELSE IF p.inventory[sType] <= 0 THEN PRet(p, ErrShipTypeDepleted, ResultInvalid)
        ELSE PRet([p EXCEPT !.board = [c \in cells |-> [isHit |-> cellAt(p, [X |-> c[1], Y |-> c[2]]).isHit,
                                                          shipRef |-> sType]] @@ @,
                            !.ships = (sType :> [Hits |-> 0, IsSunk |-> FALSE]) @@ @,
                            !.inventory[sType] = @ - 1,
                            !.shipsAfloat = @ + 1],
                  ErrNil, ResultInvalid)

\* Player.processShipDamage
processShipDamage(p, s) ==
    LET hits == p.ships[s].Hits + 1
    IN  IF hits < TypeSize(s)
        THEN PRet([p EXCEPT !.ships[s].Hits = hits], ErrNil, ResultHit)
        ELSE PRet([p EXCEPT !.ships[s] = [Hits |-> hits, IsSunk |-> TRUE],
                            !.shipsAfloat = @ - 1],
                  ErrNil, ResultSunk)

\* Mutant: a cell that was hit before is shot like a new one.
Player_ReceiveAttack_Again(p, c) ==
    LET target == cellAt(p, c)
        hit == [p EXCEPT !.board = (<<c.X, c.Y>> :> [target EXCEPT !.isHit = TRUE]) @@ @]
    IN  IF ~inBounds(c) THEN PRet(p, ErrOutOfBounds, ResultMiss)
        ELSE IF target.shipRef = NoShip THEN PRet(hit, ErrNil, ResultMiss)
        ELSE processShipDamage(hit, target.shipRef)

\* Player.ReceiveAttack
Player_ReceiveAttack(p, c) ==
    LET target == cellAt(p, c)
        hit == [p EXCEPT !.board = (<<c.X, c.Y>> :> [target EXCEPT !.isHit = TRUE]) @@ @]
    IN  IF ~inBounds(c) THEN PRet(p, ErrOutOfBounds, ResultMiss)
        ELSE IF target.isHit /\ target.shipRef = NoShip THEN PRet(p, ErrNil, ResultMiss)
        ELSE IF target.isHit /\ target.shipRef # NoShip
        THEN PRet(p, ErrRepeatedHit, ResultInvalid)
        ELSE IF target.shipRef = NoShip THEN PRet(hit, ErrNil, ResultMiss)
        ELSE processShipDamage(hit, target.shipRef)

\* Player.MarksShotResult, called by Fire with a result of ReceiveAttack.
MarksShotResult(p, c, result) ==
    IF ~inBounds(c) \/ result \notin {ResultMiss, ResultHit, ResultSunk} THEN p
    ELSE [p EXCEPT !.tracking = (<<c.X, c.Y>> :> result) @@ @]

hasPlacedAllShips(p) == \A t \in DOMAIN p.inventory : p.inventory[t] <= 0

\* Player.SetReady
SetReady(p) ==
    IF ~hasPlacedAllShips(p) THEN PRet(p, ErrFleetIncomplete, ResultInvalid)
    ELSE PRet([p EXCEPT !.isReady = TRUE], ErrNil, ResultInvalid)

HasLost(p) == p.shipsAfloat = 0

\* controller.NewController
NewController == [players |-> <<>>, turn |-> NoID, phase |-> PhaseWaiting, winner |-> NoID]

\* The ids model.NewPlayer gives out, in the order of the calls.
PlayerIDs == <<"u1", "u2">>

KRet(op, err, res, again) == [op |-> op, err |-> err, res |-> res, again |-> again]
CtlRet(c, err, res) == [c |-> c, err |-> err, res |-> res]

\* Controller.validateRequest: the error, ErrNil when the player is returned.
validateRequest(c, playerID, expectedPhase) ==
    IF c.phase = PhaseGameOver THEN ErrGameOver
    ELSE IF c.phase # expectedPhase THEN ErrWrongGamePhase
    ELSE IF playerID \notin DOMAIN c.players THEN ErrUnknownPlayer
    ELSE IF expectedPhase = PhasePlay /\ c.turn # playerID THEN ErrNotYourTurn
    ELSE ErrNil

\* Controller.getOpponent: the ids of the players it can return (none for nil).
opponentsOf(c, id) == DOMAIN c.players \ {id}

\* Controller.advanceGame
advanceGame(c, nextTurnID) ==
    IF HasLost(c.players[nextTurnID])
    THEN [c EXCEPT !.phase = PhaseGameOver, !.winner = c.turn]
    ELSE [c EXCEPT !.turn = nextTurnID]

\* Controller.Join
Ctl_Join(c) ==
    IF c.phase # PhaseWaiting THEN CtlRet(c, ErrGameFull, ResultInvalid)
    ELSE LET newID == PlayerIDs[Cardinality(DOMAIN c.players) + 1]
             players == (newID :> NewPlayerM(newID)) @@ c.players
         IN  CtlRet([c EXCEPT !.players = players,
                              !.turn = IF c.turn = NoID THEN newID ELSE c.turn,
                              !.phase = IF Cardinality(DOMAIN players) = 2
                                        THEN PhaseSetup ELSE c.phase],
                    ErrNil, ResultInvalid)

\* Controller.PlaceShip
Ctl_PlaceShip(c, playerID, sType, start, o) ==
    IF validateRequest(c, playerID, PhaseSetup) # ErrNil
    THEN CtlRet(c, validateRequest(c, playerID, PhaseSetup), ResultInvalid)
    ELSE LET r == Player_PlaceShip(c.players[playerID], sType, start, o)
         IN  CtlRet([c EXCEPT !.players[playerID] = r.p], r.err, ResultInvalid)

\* Controller.Ready
Ctl_Ready(c, playerID) ==
    IF validateRequest(c, playerID, PhaseSetup) # ErrNil
    THEN CtlRet(c, validateRequest(c, playerID, PhaseSetup), ResultInvalid)
    ELSE LET r == SetReady(c.players[playerID])
             readied == [c EXCEPT !.players[playerID] = r.p]
         IN  IF r.err # ErrNil THEN CtlRet(c, r.err, ResultInvalid)
             ELSE IF \E o \in opponentsOf(c, playerID) : c.players[o].isReady
             THEN CtlRet([readied EXCEPT !.phase = PhasePlay], ErrNil, ResultInvalid)
             ELSE CtlRet(readied, ErrNil, ResultInvalid)

\* Controller.Fire against the defender getOpponent returned.
Ctl_FireAt(c, attackerID, defenderID, target) ==
    LET r == Player_ReceiveAttack(c.players[defenderID], target)
        shot == [c EXCEPT !.players[defenderID] = r.p,
                          !.players[attackerID] = MarksShotResult(@, target, r.res)]
    IN  IF r.err # ErrNil THEN CtlRet(c, r.err, ResultInvalid)
        ELSE CtlRet(advanceGame(shot, defenderID), ErrNil, r.res)

\* Controller.Fire
Ctl_Fire(c, attackerID, target) ==
    IF validateRequest(c, attackerID, PhasePlay) # ErrNil
    THEN CtlRet(c, validateRequest(c, attackerID, PhasePlay), ResultInvalid)
    ELSE IF opponentsOf(c, attackerID) = {} THEN CtlRet(c, ErrUnknownPlayer, ResultInvalid)
    ELSE Ctl_FireAt(c, attackerID, CHOOSE d \in opponentsOf(c, attackerID) : TRUE, target)

\* The callers of the Controller: the two players and a stranger.
Commanders == {PlayerIDs[1], PlayerIDs[2], "zz"}

\* The fleet a caller places: the n-th ship type along row n - 1 from
\* column 0, so the Destroyer lies on (0, 4) and (1, 4).
Berth(n) == [X |-> 0, Y |-> n - 1]

\* The targets of Fire: the Destroyer, water, and a coordinate outside the
\* grid.
FireTargets ==
    {[X |-> 0, Y |-> 4], [X |-> 1, Y |-> 4], [X |-> 9, Y |-> 9], [X |-> gridSize, Y |-> 0]}

KJoin ==
    /\ ctl' = Ctl_Join(ctl).c
    /\ kret' = KRet("Join", Ctl_Join(ctl).err, ResultInvalid, FALSE)
    /\ UNCHANGED <<evVars, lockVars, busVars, boardVars, gameVars, lobbyVars>>

KPlaceShip(playerID, n, o) ==
    LET r == Ctl_PlaceShip(ctl, playerID, ShipTypes[n], Berth(n), o)
    IN  /\ ctl' = r.c
        /\ kret' = KRet("PlaceShip", r.err, ResultInvalid, FALSE)
        /\ UNCHANGED <<evVars, lockVars, busVars, boardVars, gameVars, lobbyVars>>

KReady(playerID) ==
    LET r == Ctl_Ready(ctl, playerID)
    IN  /\ ctl' = r.c
        /\ kret' = KRet("Ready", r.err, ResultInvalid, FALSE)
        /\ UNCHANGED <<evVars, lockVars, busVars, boardVars, gameVars, lobbyVars>>

KFire(attackerID, target) ==
    LET r == Ctl_Fire(ctl, attackerID, target)
    IN  /\ ctl' = r.c
        /\ kret' = KRet("Fire", r.err, r.res,
                        \E d \in opponentsOf(ctl, attackerID) : cellAt(ctl.players[d], target).isHit)
        /\ UNCHANGED <<evVars, lockVars, busVars, boardVars, gameVars, lobbyVars>>

NextCtl ==
    \/ KJoin
    \/ \E playerID \in Commanders, n \in DOMAIN ShipTypes : KPlaceShip(playerID, n, Across)
    \/ \E playerID \in Commanders : KReady(playerID)
    \/ \E attackerID \in Commanders, target \in FireTargets : KFire(attackerID, target)


(***************************************************************************)
(* Specifications                                                          *)
(***************************************************************************)
Init ==
    /\ b = NewBoard
    /\ bret = BRet("none", NoCoord, ErrNil, ShotResultInvalid, FALSE)
    /\ blog = [shots |-> {}, sunk |-> [s \in ShipPtrs |-> 0]]
    /\ g = NewGame
    /\ gret = [op |-> "none", err |-> ErrNil, res |-> ShotResultInvalid]
    /\ games = <<>>
    /\ uuid = 0
    /\ now = 1
    /\ sret = SRet("none", ErrNil, NoMatch, <<>>)
    /\ thr = [t \in Threads |-> Idle]
    /\ subscribers = <<>>
    /\ nret = [op |-> "none", dropped |-> {}]
    /\ gamesMu = NewRWMutex
    /\ mus = [m \in Matches |-> NoOne]
    /\ call = [t \in Goroutines |-> LIdle]
    /\ ctl = NewController
    /\ kret = KRet("none", ErrNil, ResultInvalid, FALSE)
    /\ handles = <<>>
    /\ ebus = NewMemoryEventBus

NextBoard ==
    \/ \E c \in Coords, s \in ShipPtrs, o \in BoardOrients : BPlaceShip(c, s, o)
    \/ \E c \in Coords : BReceiveShot(c)
    \/ BAllShipsSunk

Next ==
    \/ \E playerID \in IDs, fleet \in FleetChoices : Join(playerID, fleet)
    \/ \E playerID \in IDs, c \in Coords, size \in Sizes, o \in Orients :
          PlaceShip(playerID, c, size, o)
    \/ StartGame
    \/ \E attackerID \in IDs, c \in AttackCoords : Attack(attackerID, c)
    \/ \E observerID \in IDs : GetView(observerID)

NextLobby ==
    \/ \E hostID \in IDs : CreateMatch(hostID)
    \/ ListMatches
    \/ \E matchID \in Played \cup {Unregistered}, playerID \in IDs :
          JoinMatch(matchID, playerID)
    \/ \E matchID \in Played \cup {Unregistered}, playerID \in Callers,
          vertical \in BOOLEAN :
          \E k \in PlaceChoices(matchID, vertical) :
              SPlaceShip(matchID, playerID, k, vertical)
    \/ \E matchID \in Played \cup {Unregistered}, playerID \in Callers,
          vertical \in BOOLEAN :
          \E k \in ShotChoices(matchID, vertical) :
              SAttack(matchID, playerID, k, vertical)
    \/ \E matchID \in Watched \cup {Unregistered}, playerID \in Callers :
          GetState(matchID, playerID)

NextJoin ==
    \/ \E hostID \in IDs : JCreateMatch(hostID)
    \/ \E t \in Threads, matchID \in DOMAIN games \cup {Unregistered}, playerID \in Callers :
          JLookup(t, matchID, playerID)
    \/ \E t \in Threads : JCheck(t)
    \/ \E t \in Threads : JWrite(t)
    \/ \E t \in Threads : JStamp(t)
    \/ \E t \in Threads : JView(t)

NextGC ==
    \/ GCreateMatch
    \/ GJoinMatch
    \/ GPlaceShip
    \/ GAttack
    \/ \E t \in Instants : Tick(t)
    \/ Gc

\* The scripted match of NextGC, and beside it the calls of PlaceShip and
\* Attack that the registry refuses.
NextRefuse ==
    \/ GCreateMatch
    \/ GJoinMatch
    \/ GPlaceShip
    \/ GAttack
    \/ \E matchID \in Played \cup {Unregistered}, playerID \in Callers,
          vertical \in BOOLEAN :
          \E k \in DOMAIN ScriptSizes :
              SPlaceShip(matchID, playerID, k, vertical) /\ sret'.err # ErrNil
    \/ \E matchID \in Played \cup {Unregistered}, playerID \in Callers,
          vertical \in BOOLEAN :
          \E k \in ShotChoices(matchID, vertical) :
              SAttack(matchID, playerID, k, vertical) /\ sret'.err # ErrNil

NextBus ==
    \/ \E matchID \in Keys, id \in SubIDs : NSubscribe(matchID, id)
    \/ NPublish(Announced)
    \/ \E matchID \in Keys, id \in SubIDs : NReceive(matchID, id)
    \/ \E matchID \in Keys, id \in SubIDs : NUnsubscribe(matchID, id)

NextLocks ==
    \/ \E t \in Goroutines, op \in GameplayOps \cup SweepOps,
          matchID \in Matches \cup {NoMatch} : LStart(t, op, matchID)
    \/ \E t \in Goroutines : LRLock(t)
    \/ \E t \in Goroutines : LLookup(t)
    \/ \E t \in Goroutines : LMuLock(t)
    \/ \E t \in Goroutines : LBody(t)
    \/ \E t \in Goroutines : LVisit(t)
    \/ \E t \in Goroutines : LEnd(t)
    \/ \E t \in Goroutines : LAsk(t)
    \/ \E t \in Goroutines : LLock(t)
    \/ \E t \in Goroutines : LInsert(t)
    \/ \E t \in Goroutines : LJoin(t)
    \/ \E t \in Goroutines : LStamp(t)

NextAttack ==
    \/ ASetup
    \/ \E t \in Clients, attackerID \in IDs : AStart(t, attackerID)
    \/ \E t \in Clients : LRLock(t)
    \/ \E t \in Clients : LLookup(t)
    \/ \E t \in Clients : LMuLock(t)
    \/ \E t \in Clients : ACheck(t)
    \/ \E t \in Clients : AShoot(t)
    \/ \E t \in Clients : APass(t)

NextCreate ==
    \/ \E t \in Clients, hostID \in IDs : CCount(t, hostID)
    \/ \E t \in Clients : CInsert(t)

SpecBoard == Init /\ [][NextBoard]_vars

SpecLobby == Init /\ [][NextLobby]_vars

SpecJoin == Init /\ [][NextJoin]_vars

SpecBus == Init /\ [][NextBus]_vars

SpecGC == Init /\ [][NextGC]_vars

SpecLocks == Init /\ [][NextLocks]_vars

SpecAttack == Init /\ [][NextAttack]_vars

SpecCreate == Init /\ [][NextCreate]_vars

SpecCtl == Init /\ [][NextCtl]_vars

SpecRefuse == Init /\ [][NextRefuse]_vars

SpecSweep == Init /\ [][NextSweep]_vars

SpecUnsub == Init /\ [][NextUnsub]_vars

SpecEvents == Init /\ [][NextEvents]_vars

Spec == Init /\ [][Next]_vars

(***************************************************************************)
(* Properties of the Board                                                 *)
(***************************************************************************)
\* The cells a ship of the given size covers from origin c: origin plus i
\* times the unit vector of the orientation, i in 0 .. size-1.
Covered(c, size, o) ==
    {<<c.X + i * (IF o = Horizontal THEN 1 ELSE 0),
       c.Y + i * (IF o = Vertical THEN 1 ELSE 0)>> : i \in 0 .. (size - 1)}

InGrid(p) == p[1] \in Index /\ p[2] \in Index

Touched(b1, b2) ==
    DOMAIN b1.tiles \cup DOMAIN b2.tiles \cup DOMAIN b1.history \cup DOMAIN b2.history

SameTile(b1, b2, p) == tileAt(b1, p[1], p[2]) = tileAt(b2, p[1], p[2])

SameHistory(b1, b2, p) == historyAt(b1, p[1], p[2]) = historyAt(b2, p[1], p[2])

SameBoard(b1, b2) ==
    \A p \in Touched(b1, b2) : SameTile(b1, b2, p) /\ SameHistory(b1, b2, p)

HoldsShip(board, p) == tileAt(board, p[1], p[2]).ship # NilShip

IsHit(board, p) == tileAt(board, p[1], p[2]).isHit

CellsOf(board, s) == {p \in DOMAIN board.tiles : board.tiles[p].ship = s}

\* C1: a PlaceShip with a computed cell outside the grid returns the
\* out-of-bounds error, an in-grid PlaceShip with a computed cell that holds
\* a ship returns the overlap error, and in both cases every tile of the
\* board is as it was before the call.
C1_PlaceShipFailsWhole ==
    \A c \in Coords, s \in ShipPtrs, o \in BoardOrients :
        LET cells == Covered(c, ShipSize(s), o)
            r == Board_PlaceShip(b, c, s, ShipSize(s), o)
        IN  /\ (\E p \in cells : ~InGrid(p))
                => r.err = ErrShipOutOfBounds /\ SameBoard(r.board, b)
            /\ ((\A p \in cells : InGrid(p)) /\ (\E p \in cells : HoldsShip(b, p)))
                => r.err = ErrShipOverlap /\ SameBoard(r.board, b)

C1_Witness ==
    /\ bret.op = "PlaceShip"
    /\ bret.err = ErrShipOverlap
    /\ Occupied(b) > 0

\* C2: a Horizontal or Vertical PlaceShip whose cells all lie in the grid and
\* hold no ship succeeds; afterwards exactly those size cells hold the placed
\* ship and every other tile, every hit flag and the history are unchanged.
C2_PlaceShipSucceeds ==
    \A c \in Coords, s \in ShipPtrs, o \in {Horizontal, Vertical} :
        LET cells == Covered(c, ShipSize(s), o)
            r == Board_PlaceShip(b, c, s, ShipSize(s), o)
        IN  ((\A p \in cells : InGrid(p) /\ ~HoldsShip(b, p)))
                => /\ r.err = ErrNil
                   /\ Cardinality(cells) = ShipSize(s)
                   /\ \A p \in cells :
                         /\ tileAt(r.board, p[1], p[2]).ship = s
                         /\ IsHit(r.board, p) = IsHit(b, p)
                   /\ \A p \in Touched(r.board, b) \ cells : SameTile(r.board, b, p)
                   /\ \A p \in Touched(r.board, b) : SameHistory(r.board, b, p)

C2_Witness ==
    /\ bret.op = "PlaceShip"
    /\ bret.err = ErrNil
    /\ \E s \in ShipPtrs :
          /\ ShipSize(s) = 2
          /\ \E p \in CellsOf(b, s) : <<p[1], p[2] + 1>> \in CellsOf(b, s)

\* C3: the first ReceiveShot at an in-grid coordinate returns Miss, Hit or
\* Sunk; every later ReceiveShot there returns Invalid and changes no tile
\* and no history entry; a shot outside the grid returns Invalid and changes
\* nothing.
C3_SecondShotInvalid ==
    \A c \in Coords :
        LET p == <<c.X, c.Y>>
            r == Board_ReceiveShot(b, c)
        IN  /\ ~InGrid(p) => r.res = ShotResultInvalid /\ SameBoard(r.board, b)
            /\ (InGrid(p) /\ p \notin blog.shots)
                => r.res \in {ShotResultMiss, ShotResultHit, ShotResultSunk}
            /\ (InGrid(p) /\ p \in blog.shots)
                => r.res = ShotResultInvalid /\ SameBoard(r.board, b)

C3_Witness ==
    /\ bret.op = "ReceiveShot"
    /\ bret.res = ShotResultInvalid
    /\ <<bret.at.X, bret.at.Y>> \in blog.shots
    /\ historyAt(b, bret.at.X, bret.at.Y) = ShotResultMiss

\* C4: a first shot at an in-grid cell returns Miss iff the cell holds no
\* ship, Sunk iff it holds a ship all of whose cells are hit after the shot,
\* Hit iff it holds a ship with a cell still unhit after the shot; each ship
\* has produced exactly one Sunk result once all its cells are hit and none
\* before.
C4_ShotResult ==
    /\ \A c \in Coords :
          LET p == <<c.X, c.Y>>
              r == Board_ReceiveShot(b, c)
              s == tileAt(b, c.X, c.Y).ship
              rest == {q \in CellsOf(b, s) \ {p} : ~IsHit(b, q)}
          IN  (InGrid(p) /\ ~IsHit(b, p))
                  => /\ (r.res = ShotResultMiss) <=> ~HoldsShip(b, p)
                     /\ (r.res = ShotResultSunk) <=> (HoldsShip(b, p) /\ rest = {})
                     /\ (r.res = ShotResultHit) <=> (HoldsShip(b, p) /\ rest # {})
    /\ \A s \in ShipPtrs :
          blog.sunk[s] = IF CellsOf(b, s) # {} /\ \A q \in CellsOf(b, s) : IsHit(b, q)
                         THEN 1 ELSE 0

C4_Witness ==
    /\ bret.op = "ReceiveShot"
    /\ bret.res = ShotResultSunk
    /\ \E s \in ShipPtrs : blog.sunk[s] = 1 /\ Cardinality(CellsOf(b, s)) >= 2
    /\ \E s \in ShipPtrs : CellsOf(b, s) # {} /\ blog.sunk[s] = 0

\* C5: AllShipsSunk returns true exactly when every tile that holds a ship
\* has its hit flag set (so true on a board without ships, false while a ship
\* cell is unhit), and it does not modify the board.
C5_AllShipsSunk ==
    /\ [](bret.op = "AllShipsSunk"
            => bret.ok = (\A p \in DOMAIN b.tiles : HoldsShip(b, p) => IsHit(b, p)))
    /\ [](AllShipsSunk(NewBoard))
    /\ [][bret'.op = "AllShipsSunk" => SameBoard(b', b)]_vars

C5_Witness ==
    /\ bret.op = "AllShipsSunk"
    /\ bret.ok
    /\ Occupied(b) >= 2
    /\ blog.sunk # [s \in ShipPtrs |-> 0]

(***************************************************************************)
(* Properties of the Game                                                  *)
(***************************************************************************)
Joined(game) == game.player1 # NilPlayer /\ game.player2 # NilPlayer

IsPlayer(game, id) ==
    \/ game.player1 # NilPlayer /\ game.player1.id = id
    \/ game.player2 # NilPlayer /\ game.player2.id = id

Remaining(p) == {size \in DOMAIN p.fleet : p.fleet[size] > 0}

\* C6: Join fills the first empty slot: on a new game slot 1, phase still
\* Waiting; then slot 2, phase Waiting -> Setup; every further Join fails with
\* GameFull and leaves slots, phase, turn and winner unchanged.
C6_JoinFillsSlots ==
    \A id \in Callers, fleet \in FleetChoices :
        LET r == Game_Join(g, id, fleet)
        IN  /\ g.player1 = NilPlayer
                => /\ r.err = ErrNil
                   /\ r.g.player1 # NilPlayer /\ r.g.player1.id = id
                   /\ r.g.player2 = NilPlayer
                   /\ r.g.state = StateWaiting
                   /\ r.g.turn = g.turn /\ r.g.winner = g.winner
            /\ (g.player1 # NilPlayer /\ g.player2 = NilPlayer)
                => /\ r.err = ErrNil
                   /\ r.g.player1 = g.player1
                   /\ r.g.player2 # NilPlayer /\ r.g.player2.id = id
                   /\ g.state = StateWaiting /\ r.g.state = StateSetup
                   /\ r.g.turn = g.turn /\ r.g.winner = g.winner
            /\ Joined(g) => r.err = ErrGameFull /\ r.g = g

C6_Witness ==
    /\ gret.op = "Join"
    /\ gret.err = ErrGameFull
    /\ Joined(g)
    /\ g.player1.id # g.player2.id
    /\ g.state = StateSetup

\* C7: over every sequence of Join, PlaceShip, StartGame, Attack and GetView
\* calls the phase stays or moves to the next of Waiting, Setup, Playing,
\* GameOver: never back, never skipping one.
C7_PhaseForward ==
    [][g'.state = g.state \/ g'.state = g.state + 1]_vars

C7_Witness ==
    /\ g.state = StateGameOver
    /\ gret.op = "StartGame"

\* C8: in Playing and GameOver every remaining count of both players is
\* zero; StartGame in Setup with a remaining count above zero fails with
\* NotReadyToStart, StartGame outside Setup fails, and neither changes the
\* game.
C8_StartNeedsFleetsPlaced ==
    LET r == Game_StartGame(g)
    IN  /\ g.state \in {StatePlaying, StateGameOver}
            => \A p \in {g.player1, g.player2} : \A size \in DOMAIN p.fleet : p.fleet[size] = 0
        /\ (g.state = StateSetup /\ \E p \in {g.player1, g.player2} : Remaining(p) # {})
            => r.err = ErrNotReadyToStart /\ r.g = g
        /\ g.state # StateSetup => r.err # ErrNil /\ r.g = g

C8_Witness ==
    /\ gret.op = "StartGame"
    /\ gret.err = ErrNotReadyToStart
    /\ Remaining(g.player1) = {}
    /\ Remaining(g.player2) # {}
    /\ Occupied(g.player2.board) > 0

\* C9: on entering Playing the turn is the host's identifier, and as long as
\* no attack has succeeded only the host's identifier attacks successfully.
C9_HostMovesFirst ==
    (g.state = StatePlaying /\ Attacks(g) = 0)
        => /\ g.turn = g.player1.id
           /\ \A id \in Callers, c \in AttackCoords :
                 Game_Attack(g, id, c).err = ErrNil => id = g.player1.id

C9_Witness ==
    /\ g.state = StatePlaying
    /\ gret.op = "Attack"
    /\ gret.err = ErrNil
    /\ Attacks(g) = 1
    /\ ShotsAt(g.player2.board) = 1
    /\ g.player1.id # g.player2.id

\* C10: Attack fails with NotInPlay outside Playing, with UnknownPlayer in
\* Playing for an attacker that is neither player, with NotYourTurn for a
\* player who does not hold the turn; each time the game is unchanged.
C10_AttackRejected ==
    \A id \in Callers, c \in AttackCoords :
        LET r == Game_Attack(g, id, c)
        IN  /\ g.state # StatePlaying => r.err = ErrNotInPlay /\ r.g = g
            /\ (g.state = StatePlaying /\ ~IsPlayer(g, id))
                => r.err = ErrUnknownPlayer /\ r.g = g
            /\ (g.state = StatePlaying /\ IsPlayer(g, id) /\ id # g.turn)
                => r.err = ErrNotYourTurn /\ r.g = g

C10_Witness ==
    /\ gret.op = "Attack"
    /\ gret.err = ErrNotYourTurn
    /\ g.state = StatePlaying
    /\ Attacks(g) > 0

\* The slot an identifier resolves to (the host's when both slots carry it)
\* and the slot of the player it then faces.
SlotOf(game, id) == IF game.player1.id = id THEN 1 ELSE 2

AllCellsHit(board) == \A p \in DOMAIN board.tiles : HoldsShip(board, p) => IsHit(board, p)

\* C11: a successful Attack that does not leave every ship cell of the
\* defender hit hands the turn from the attacker to the other player; one that
\* does leaves the turn with the attacker and moves the phase to GameOver.
C11_TurnAlternates ==
    \A id \in Callers, c \in AttackCoords :
        LET r == Game_Attack(g, id, c)
            me == SlotOf(g, id)
            defender == Slot(r.g, 3 - me)
        IN  r.err = ErrNil
                => /\ g.turn = id
                   /\ r.res \in {ShotResultMiss, ShotResultHit, ShotResultSunk}
                   /\ r.res \in {ShotResultMiss, ShotResultHit} => ~AllCellsHit(defender.board)
                   /\ ~AllCellsHit(defender.board)
                         => /\ r.g.turn = Slot(g, 3 - me).id
                            /\ r.g.state = StatePlaying
                   /\ AllCellsHit(defender.board)
                         => /\ r.res = ShotResultSunk
                            /\ r.g.turn = g.turn
                            /\ r.g.state = StateGameOver

C11_Witness ==
    /\ gret.op = "Attack"
    /\ gret.err = ErrNil
    /\ gret.res = ShotResultSunk
    /\ g.state = StatePlaying
    /\ g.player1.id # g.player2.id
    /\ g.turn = g.player1.id
    /\ Attacks(g) >= 2

\* C12: an Attack by the turn holder at a coordinate outside the grid or at
\* a cell of the defender's board that was already shot fails with InvalidShot
\* and leaves the whole game, the turn included, as it was.
C12_InvalidShotKeepsTurn ==
    \A id \in Callers, c \in AttackCoords :
        LET r == Game_Attack(g, id, c)
            p == <<c.X, c.Y>>
        IN  (/\ g.state = StatePlaying
             /\ IsPlayer(g, id)
             /\ g.turn = id
             /\ ~InGrid(p) \/ IsHit(Slot(g, 3 - SlotOf(g, id)).board, p))
                => /\ r.err = ErrInvalidShot
                   /\ r.res = ShotResultInvalid
                   /\ r.g = g
                   /\ r.g.turn = id

C12_Witness ==
    /\ gret.op = "Attack"
    /\ gret.err = ErrInvalidShot
    /\ g.state = StatePlaying
    /\ g.turn = g.player2.id
    /\ g.player1.id # g.player2.id
    /\ \E c \in AttackCoords : IsHit(g.player1.board, <<c.X, c.Y>>)

\* C13: a successful Attack moves the phase to GameOver exactly when it
\* leaves every ship cell of the defender hit, and then the winner is the
\* attacker; in GameOver every Attack fails with NotInPlay and no call changes
\* the game any more.
C13_GameOverIsFinal ==
    /\ [](\A id \in Callers, c \in AttackCoords :
             LET r == Game_Attack(g, id, c)
                 defender == Slot(r.g, 3 - SlotOf(g, id))
             IN  /\ r.err = ErrNil
                     => /\ (r.g.state = StateGameOver) <=> AllCellsHit(defender.board)
                        /\ r.g.state = StateGameOver => r.g.winner = id
                        /\ r.g.state # StateGameOver => r.g.winner = NoID
                 /\ g.state = StateGameOver => r.err = ErrNotInPlay /\ r.g = g)
    /\ [][g.state = StateGameOver => g' = g]_vars

C13_Witness ==
    /\ g.state = StateGameOver
    /\ gret.op = "Attack"
    /\ gret.err = ErrNotInPlay
    /\ g.winner = g.player2.id
    /\ g.player1.id # g.player2.id

\* C14: Game.PlaceShip fails with NotInSetup outside Setup, with UnknownPlayer
\* for an identifier of neither player, with NoShipsRemaining when the size is
\* not in the player's fleet or its count is zero, else with the board's
\* out-of-bounds or overlap error; a failure leaves the game unchanged, a
\* success takes one off that player's count for the size, puts the ship on
\* that player's board and changes nothing else.
C14_PlaceShipOutcomes ==
    \A id \in Callers, c \in Coords, size \in Sizes, o \in Orients :
        LET r == Game_PlaceShip(g, id, c, size, o)
            cells == Covered(c, size, o)
        IN  /\ g.state # StateSetup => r.err = ErrNotInSetup /\ r.g = g
            /\ (g.state = StateSetup /\ ~IsPlayer(g, id))
                => r.err = ErrUnknownPlayer /\ r.g = g
            /\ (g.state = StateSetup /\ IsPlayer(g, id))
                => LET n == SlotOf(g, id)
                       p == Slot(g, n)
                       q == Slot(r.g, n)
                   IN  /\ (size \notin DOMAIN p.fleet \/ p.fleet[size] = 0)
                           => r.err = ErrNoShipsRemaining /\ r.g = g
                       /\ (size \in DOMAIN p.fleet /\ p.fleet[size] > 0)
                           => /\ (\E x \in cells : ~InGrid(x))
                                  => r.err = ErrShipOutOfBounds /\ r.g = g
                              /\ ((\A x \in cells : InGrid(x))
                                    /\ \E x \in cells : HoldsShip(p.board, x))
                                  => r.err = ErrShipOverlap /\ r.g = g
                              /\ (\A x \in cells : InGrid(x) /\ ~HoldsShip(p.board, x))
                                  => /\ r.err = ErrNil
                                     /\ q.fleet = [p.fleet EXCEPT ![size] = @ - 1]
                                     /\ q.id = p.id
                                     /\ \A x \in cells : HoldsShip(q.board, x)
                                     /\ Occupied(q.board) = Occupied(p.board) + size
                                     /\ Slot(r.g, 3 - n) = Slot(g, 3 - n)
                                     /\ r.g.state = g.state
                                     /\ r.g.turn = g.turn
                                     /\ r.g.winner = g.winner

C14_Witness ==
    /\ gret.op = "PlaceShip"
    /\ gret.err = ErrShipOverlap
    /\ g.state = StateSetup
    /\ Remaining(g.player1) # {}
    /\ Remaining(g.player2) = {}
    /\ Occupied(g.player1.board) > 0

\* The cells of the grid corner the coordinates are drawn around.
Corner == {p \in Axis \X Axis : InGrid(p)}

\* The game in which the unshot cells of the corner of a player's board hold
\* a ship exactly on the cells of S: a match that differs only in where that
\* player's not-yet-shot ship cells are.
Relocated(game, n, S) ==
    LET p == Slot(game, n)
        s == CHOOSE ship \in ShipPtrs : TRUE
        free == {x \in Corner : ~IsHit(p.board, x)}
        tiles == [x \in DOMAIN p.board.tiles \cup free |->
                     IF x \in free
                     THEN [isHit |-> FALSE, ship |-> IF x \in S THEN s ELSE NilShip]
                     ELSE p.board.tiles[x]]
    IN  SetSlot(game, n, [p EXCEPT !.board.tiles = tiles])

\* C15: the view an observer gets is the same in every match that differs
\* only in where the opponent's unshot ship cells are (an unshot opponent
\* cell shows the same with or without a ship), and the observer's own board
\* shows each of its ship cells as a ship: unshot as SHIP, shot as HIT or SUNK.
C15_FogOfWar ==
    \A id \in IDs :
        LET r == Game_GetView(g, id)
            me == SlotOf(g, id)
        IN  r.err = ErrNil
                => /\ \A S \in SUBSET Corner :
                         Game_GetView(Relocated(g, 3 - me, S), id).view = r.view
                   /\ \A x \in Corner :
                         ~IsHit(Slot(g, 3 - me).board, x)
                             => gridAt(r.view.Enemy.Board, x[1], x[2]) = CellUnknown
                   /\ \A x \in DOMAIN Slot(g, me).board.tiles :
                         HoldsShip(Slot(g, me).board, x)
                             => gridAt(r.view.Me.Board, x[1], x[2])
                                    \in IF IsHit(Slot(g, me).board, x)
                                        THEN {CellHit, CellSunk} ELSE {CellShip}

C15_Witness ==
    /\ gret.op = "GetView"
    /\ gret.err = ErrNil
    /\ g.state = StatePlaying
    /\ g.player1.id # g.player2.id
    /\ \E x \in Corner : HoldsShip(g.player2.board, x) /\ ~IsHit(g.player2.board, x)
    /\ \E x \in Corner : HoldsShip(g.player2.board, x) /\ IsHit(g.player2.board, x)
    /\ \E x \in Corner : HoldsShip(g.player1.board, x) /\ IsHit(g.player1.board, x)

(***************************************************************************)
(* Properties of the MemoryService                                         *)
(***************************************************************************)
\* C16: GetState on a registered match returns the current view to a player
\* of the match and the unknown-player error to anybody else, in every phase;
\* it has no other outcome and does not change the registry.
C16_GetStateOutcomes ==
    \A matchID \in DOMAIN games, id \in Callers :
        LET r == Svc_GetState(games, matchID, id)
            game == games[matchID].game
        IN  /\ IsPlayer(game, id)
                => /\ r.err = ErrNil
                   /\ r.view.State = toDTOState(game.state)
                   /\ r.view.Me.ID = id
            /\ ~IsPlayer(game, id) => r.err = ErrUnknownPlayer
            /\ r.games = games

Active(gs, id) == {m \in DOMAIN gs : gs[m].host = id /\ gs[m].game.state # StateGameOver}

ErrAlreadyActive == "already in an active game"

\* C18: a user who hosts a match that is not finished cannot create another
\* match and cannot join a match of another host: both calls fail with the
\* already-in-an-active-game error.
C18_SingleActiveGame ==
    \A id \in IDs :
        Active(games, id) # {}
            => /\ Svc_CreateMatch(games, uuid, id, now).err = ErrAlreadyActive
               /\ \A m \in DOMAIN games :
                     games[m].host # id
                         => Svc_JoinMatch(games, m, id, now).err = ErrAlreadyActive

\* C19: ListMatches returns one summary per registered match and nothing
\* else; the summary carries the identifier, the host, the creation time and
\* a player count of 1 without a guest and 2 with one; the call changes no
\* match.
C19_ListMatches ==
    /\ [](LET list == Svc_ListMatches(games)
          IN  /\ \A s \in DOMAIN list : s.ID \in DOMAIN games /\ list[s] = 1
              /\ \A m \in DOMAIN games :
                    \E s \in DOMAIN list :
                        /\ s.ID = m
                        /\ s.HostName = games[m].host
                        /\ s.CreatedAt = games[m].createdAt
                        /\ s.PlayerCount = IF games[m].guest = NoID THEN 1 ELSE 2)
    /\ [][sret'.op = "ListMatches" => games' = games]_vars

\* The finished JoinMatch calls on match m that returned a view.
Winners(m) ==
    {t \in Threads : thr[t].pc = "done" /\ thr[t].matchID = m /\ thr[t].err = ErrNil}

\* C20: a JoinMatch for an unregistered identifier fails with match-not-found;
\* of the JoinMatch calls that race for one Waiting match exactly one fills
\* the guest slot and gets a view, the others fail with GameFull, and the
\* guest recorded is the caller that succeeded.
C20_JoinSerialized ==
    /\ \A t \in Threads :
          thr[t].pc = "done"
              => IF thr[t].matchID = Unregistered
                 THEN thr[t].err = ErrMatchNotFound
                 ELSE thr[t].err \in {ErrNil, ErrGameFull}
    /\ \A m \in DOMAIN games :
          /\ Cardinality(Winners(m)) <= 1
          /\ \A t \in Winners(m) :
                /\ games[m].guest = thr[t].playerID
                /\ games[m].game.player2.id = thr[t].playerID
          /\ ((\E t \in Threads : thr[t].pc = "done" /\ thr[t].matchID = m)
                /\ \A t \in Threads : ~InCall(t))
                => Winners(m) # {}

(***************************************************************************)
(* Invariants of the Game                                                  *)
(***************************************************************************)
\* C29: the turn is unset or the identifier of one of the two joined
\* players; it is unset in Waiting and Setup and set in Playing.
C29_TurnIsAPlayer ==
    /\ g.turn = NoID \/ (Joined(g) /\ g.turn \in {g.player1.id, g.player2.id})
    /\ g.state \in {StateWaiting, StateSetup} => g.turn = NoID
    /\ g.state = StatePlaying => g.turn # NoID

C29_Witness ==
    /\ g.state = StatePlaying
    /\ g.player1.id # g.player2.id
    /\ g.turn = g.player2.id
    /\ gret.op = "GetView"
    /\ Attacks(g) = 1

\* C30: the winner is set exactly in GameOver; it is then the identifier of
\* a player whose opponent's board has every ship cell hit, and once set it
\* never changes.
C30_WinnerSetOnce ==
    /\ [](/\ (g.winner # NoID) <=> (g.state = StateGameOver)
          /\ g.winner # NoID
                => \E n \in {1, 2} : /\ Slot(g, n).id = g.winner
                                     /\ AllCellsHit(Slot(g, 3 - n).board))
    /\ [][g.winner # NoID => g'.winner = g.winner]_vars

C30_Witness ==
    /\ g.state = StateGameOver
    /\ g.player1.id # g.player2.id
    /\ g.winner = g.player1.id
    /\ gret.op = "Attack"
    /\ gret.err = ErrNil
    /\ Attacks(g) = 3

(***************************************************************************)
(* Properties of the MemoryService: setup and events                       *)
(***************************************************************************)
\* C28: a successful MemoryService.PlaceShip happens in Setup; when it leaves
\* no ship of either player unplaced the match is in Playing right after it,
\* with the host to move, and the view returned and the next GetState say
\* so; when a ship is left unplaced they all still say Setup.
C28_AutoStart ==
    \A matchID \in DOMAIN games, playerID \in IDs, vertical \in BOOLEAN :
        \A k \in DOMAIN ScriptSizes :
            LET c == ScriptCell(vertical, k, 0)
                r == Svc_PlaceShip(games, matchID, playerID, ScriptSizes[k], c.X, c.Y,
                                   vertical, now)
                before == games[matchID].game
                after == r.games[matchID].game
                later == Svc_GetState(r.games, matchID, playerID)
                phase == IF allShipsPlaced(after) THEN StatePlaying ELSE StateSetup
            IN  r.err = ErrNil
                    => /\ before.state = StateSetup
                       /\ ~allShipsPlaced(before)
                       /\ after.state = phase
                       /\ r.view.State = toDTOState(phase)
                       /\ later.err = ErrNil
                       /\ later.view.State = toDTOState(phase)
                       /\ phase = StatePlaying => after.turn = games[matchID].host

C28_Witness ==
    /\ sret.op = "PlaceShip"
    /\ sret.err = ErrNil
    /\ 1 \in DOMAIN games
    /\ games[1].game.state = StatePlaying
    /\ Attacks(games[1].game) = 0
\* The player a call by playerID on the match is addressed against.
OtherPlayer(sg, playerID) ==
    IF playerID = sg.game.player1.id THEN sg.game.player2.id ELSE sg.game.player1.id

\* The call published one event, of the given type, keyed by the match, from
\* the caller to the other player.
OneEvent(r, type, matchID, playerID) ==
    /\ r.event # NoEvent
    /\ r.event.Type = type
    /\ r.event.MatchID = matchID
    /\ r.event.PlayerID = playerID
    /\ r.event.TargetID = OtherPlayer(r.games[matchID], playerID)
    /\ r.event.TargetID # playerID

\* C26: every successful JoinMatch, PlaceShip and Attack publishes exactly
\* one event of its type, keyed by the match, whose acting player is the
\* caller and whose target is the other player, never the caller.
C26_EventsPublished ==
    \A matchID \in DOMAIN games, playerID \in IDs :
        /\ LET r == Svc_JoinMatch(games, matchID, playerID, now)
           IN  r.err = ErrNil => OneEvent(r, EventPlayerJoined, matchID, playerID)
        /\ \A vertical \in BOOLEAN :
              /\ \A k \in DOMAIN ScriptSizes :
                    LET c == ScriptCell(vertical, k, 0)
                        r == Svc_PlaceShip(games, matchID, playerID, ScriptSizes[k],
                                           c.X, c.Y, vertical, now)
                    IN  r.err = ErrNil => OneEvent(r, EventShipPlaced, matchID, playerID)
              /\ \A k \in ShotChoices(matchID, vertical) \ {0} :
                    LET c == ScriptCells(vertical)[k]
                        r == Svc_Attack(games, matchID, playerID, c.X, c.Y, now)
                    IN  r.err = ErrNil => OneEvent(r, EventAttackMade, matchID, playerID)

(***************************************************************************)
(* Properties of the cleanup loop                                          *)
(***************************************************************************)
Age(sg) == now - sg.updatedAt

\* C24: a sweep removes exactly the matches in GameOver last updated more
\* than 10 minutes ago and the unfinished matches last updated more than 24
\* hours ago, and leaves every other match registered as it was.
C24_GcRemoves ==
    LET after == Svc_gc(games, now)
    IN  /\ DOMAIN after \subseteq DOMAIN games
        /\ \A id \in DOMAIN games :
              /\ id \notin DOMAIN after
                    <=> \/ IsGameOver(games[id].game) /\ Age(games[id]) > 10 * Minute
                        \/ ~IsGameOver(games[id].game) /\ Age(games[id]) > 24 * Hour
              /\ id \in DOMAIN after => after[id] = games[id]
              /\ (IsGameOver(games[id].game) /\ Age(games[id]) = Hour)
                    => id \notin DOMAIN after
              /\ (~IsGameOver(games[id].game) /\ Age(games[id]) = Hour)
                    => id \in DOMAIN after

\* A sweep one hour after the start has removed the first match, which can
\* only have been finished, and kept the second, idle for that hour.
C24_Witness ==
    /\ sret.op = "gc"
    /\ now = 1 + Hour
    /\ uuid = 2
    /\ 1 \notin DOMAIN games
    /\ 2 \in DOMAIN games
    /\ Age(games[2]) = Hour

(***************************************************************************)
(* Properties of the NotificationService                                   *)
(***************************************************************************)
\* The events a caller may publish: either type, for either match.
Events == [Type : {EventShipPlaced, EventAttackMade}, MatchID : {1, 2}]

\* C27: for every state of the subscribers Publish returns without waiting;
\* it appends the event to the channel of every subscriber of the event's
\* match and of "*" that holds fewer than 100 events, leaves a channel that
\* holds 100 as it is, and touches no other subscriber and no subscription.
C27_PublishNeverBlocks ==
    \A event \in Events :
        LET r == NS_Publish(subscribers, event)
        IN  /\ ~r.blocks
            /\ DOMAIN r.subscribers = DOMAIN subscribers
            /\ \A key \in DOMAIN subscribers :
                  /\ Len(r.subscribers[key]) = Len(subscribers[key])
                  /\ \A i \in DOMAIN subscribers[key] :
                        LET old == subscribers[key][i]
                            new == r.subscribers[key][i]
                        IN  /\ new.id = old.id
                            /\ new.ch = IF key \in {event.MatchID, Wildcard}
                                           /\ Len(old.ch) < chanCap
                                        THEN Append(old.ch, event)
                                        ELSE old.ch
                            /\ old.id \in r.dropped
                                  <=> /\ key \in {event.MatchID, Wildcard}
                                      /\ Len(old.ch) = chanCap

\* The last Publish found the channel of one subscriber full and dropped
\* the event for it, while the wildcard subscriber, who reads, got it.
C27_Witness ==
    /\ nret.op = "Publish"
    /\ nret.dropped = {"s1"}
    /\ subscribersOf(subscribers, 1) # <<>>
    /\ subscribers[1][1].id = "s1"
    /\ Len(subscribers[1][1].ch) = chanCap
    /\ subscribersOf(subscribers, Wildcard) # <<>>
    /\ subscribers[Wildcard][1].id = "s2"
    /\ Len(subscribers[Wildcard][1].ch) \in 1 .. (chanCap - 1)
    /\ subscribers[Wildcard][1].ch[Len(subscribers[Wildcard][1].ch)] = Announced

(***************************************************************************)
(* Properties of the locking discipline                                    *)
(***************************************************************************)
\* A gameplay call is at work on match m: it holds the lock of the match, or
\* it is a JoinMatch between its first and its last write to the match.
Operating(t, m) ==
    /\ call[t].op \in GameplayOps
    /\ call[t].matchID = m
    /\ mus[m] = t \/ call[t].pc = "stamp"

\* C21: at every instant at most one gameplay call (JoinMatch, PlaceShip,
\* Attack, GetState) is at work on a given match, and a call that is at work
\* on a match holds the lock of that match.
C21_OneCallPerMatch ==
    \A m \in Matches :
        /\ Cardinality({t \in Clients : Operating(t, m)}) <= 1
        /\ \A t \in Clients : Operating(t, m) => mus[m] = t

\* The goroutines whose locks t needs before its next step: none when the
\* step is enabled.
WaitsFor(t) ==
    LET c == call[t]
    IN  CASE c.pc \in {"outer", "rlock"} ->
                 IF canRLock(gamesMu) THEN {}
                 ELSE ({gamesMu.writer} \cup gamesMu.waiting) \ {NoOne}
          [] c.pc = "wait" ->
                 IF canLock(gamesMu) THEN {}
                 ELSE ({gamesMu.writer} \cup {u \in Goroutines : gamesMu.readers[u] > 0})
                          \ {NoOne}
          [] c.pc = "mlock" -> {mus[c.matchID]} \ {NoOne}
          [] OTHER -> {}

\* Goroutines that wait for locks only goroutines among themselves can give
\* back: none of them ever takes another step.
Stuck(S) == S # {} /\ \A t \in S : WaitsFor(t) \cap S # {}

\* C22: no state is reached in which some goroutines inside calls wait on
\* each other's locks, so that every call that started returns.
C22_NoCallBlocksForever == \A S \in SUBSET Goroutines : ~Stuck(S)

\* The goroutines that have to give a lock back before t takes its next
\* step: those t waits for, those they wait for, and so on.
Blockers(t) ==
    LET w1 == WaitsFor(t)
        w2 == w1 \cup UNION {WaitsFor(x) : x \in w1}
    IN  w2 \cup UNION {WaitsFor(x) : x \in w2}

\* C25: a PlaceShip, Attack or GetState call on a match never has to wait
\* until a gameplay call that holds the lock of another match gives that
\* lock back, whatever sweep or listing is under way.
C25_UnrelatedNotSerialized ==
    \A t \in Clients, u \in Clients, A \in DOMAIN games, B \in DOMAIN games :
        /\ A # B
        /\ call[u].op \in GameplayOps
        /\ mus[A] = u
        /\ call[t].op \in LockedOps
        /\ call[t].matchID = B
        => u \notin Blockers(t)

(***************************************************************************)
(* Properties of concurrent Attack calls                                   *)
(***************************************************************************)
\* The shots the host and the guest have landed in the arena.
ShotsBy(n) == ShotsAt(Slot(games[Arena].game, 3 - n).board)

\* The call of t returns in this step.
Returns(t) ==
    /\ call[t].op = "Attack"
    /\ call[t].pc \in {"held", "shoot", "pass"}
    /\ call'[t].pc = "idle"

\* The game as the call of t found it when it had the lock of the match.
Found(t) == IF call[t].pc = "held" THEN games[Arena].game ELSE call[t].pre

\* What the call of t does when it runs alone from the state it found.
Alone(t) ==
    Svc_Attack([games EXCEPT ![Arena].game = Found(t)], Arena, call[t].playerID,
               Target(t, call[t].count).X, Target(t, call[t].count).Y, now)

\* Between its steps the call of t sees the game as it left it: nobody else
\* has written to it.
Undisturbed(t) ==
    LET c == call[t]
        n == getOpponent(c.pre, c.playerID)
        d == Slot(c.pre, n)
        r == Board_ReceiveShot(d.board, Target(t, c.count))
    IN  /\ c.pc = "shoot" => games[Arena].game = c.pre
        /\ c.pc = "pass" => games[Arena].game = SetSlot(c.pre, n, [d EXCEPT !.board = r.board])

\* C23: Attack calls made at the same time on a match in play, at distinct
\* cells of the grid, take effect one after the other in the order in which
\* they get the lock of the match: each returns what it returns when run
\* alone from the state it found, the turn changes once with every call that
\* succeeds without ending the game and at no other step, and the host has
\* landed as many shots as the guest or one more.
C23_AttacksSerialized ==
    /\ [](InPlay =>
            /\ ShotsBy(1) - ShotsBy(2) \in {0, 1}
            /\ \A t \in Clients : Undisturbed(t)
            /\ mus[Arena] = NoOne /\ games[Arena].game.state = StatePlaying
                  => games[Arena].game.turn =
                         IF ShotsBy(1) = ShotsBy(2) THEN First ELSE Second)
    /\ [][InPlay =>
            /\ \A t \in Clients :
                  Returns(t) =>
                      /\ games' = Alone(t).games
                      /\ sret'.err = Alone(t).err
                      /\ (sret'.err = ErrNil /\ games'[Arena].game.state = StatePlaying)
                            => /\ games'[Arena].game.turn # Found(t).turn
                               /\ games'[Arena].game.turn \in IDs
                      /\ sret'.err # ErrNil => games' = games
            /\ games'[Arena].game.turn # games[Arena].game.turn
                  => \E t \in Clients : Returns(t) /\ sret'.err = ErrNil
            /\ games' # games => \E t \in Clients : mus[Arena] = t /\ call'[t] # call[t]]_vars

\* The first client has attacked as the host and returned; now it attacks as
\* the guest, has shot and is about to pass the turn, while the second
\* client, attacking as the guest too, waits for the lock of the match.
C23_Witness ==
    /\ InPlay
    /\ mus[Arena] = "c1"
    /\ call["c1"].pc = "pass" /\ call["c1"].playerID = Second /\ call["c1"].count = 2
    /\ call["c2"].pc = "mlock" /\ call["c2"].playerID = Second
    /\ ShotsBy(1) = 1 /\ ShotsBy(2) = 1
    /\ games[Arena].game.turn = Second

(***************************************************************************)
(* Properties of the Board: shape of the ships                             *)
(***************************************************************************)
\* The cells are next to each other along one row or along one column.
InLine(cells) ==
    \E x \in Index, y \in Index, n \in 1 .. GridSize :
        \/ cells = {<<x + i, y>> : i \in 0 .. (n - 1)}
        \/ cells = {<<x, y + i>> : i \in 0 .. (n - 1)}

\* C31: after every sequence of PlaceShip calls every ship on the board
\* covers exactly as many tiles as its size, in one row or one column next
\* to each other, whatever orientation was passed and also when a ship was
\* passed more than once.
C31_ShipsWellFormed ==
    \A s \in ShipPtrs :
        CellsOf(b, s) # {}
            => /\ Cardinality(CellsOf(b, s)) = ShipSize(s)
               /\ InLine(CellsOf(b, s))

(***************************************************************************)
(* Properties of the MemoryService: timestamps and failed calls            *)
(***************************************************************************)
\* The registries the gameplay calls of a player on a match leave behind
\* when they succeed at the present instant.
AfterSuccess(matchID, playerID) ==
    {r.games : r \in {x \in
        {Svc_JoinMatch(games, matchID, playerID, now),
         Svc_GetState(games, matchID, playerID)}
        \cup {Svc_PlaceShip(games, matchID, playerID, ScriptSizes[k],
                            ScriptCell(vertical, k, 0).X, ScriptCell(vertical, k, 0).Y,
                            vertical, now) :
                 k \in DOMAIN ScriptSizes, vertical \in BOOLEAN}
        \cup {Svc_Attack(games, matchID, playerID, c.X, c.Y, now) :
                 c \in {RowCells[1], ColumnCells[1]}} : x.err = ErrNil}}

\* C32: every gameplay call on a match that succeeds leaves the match with
\* the time of the call as its last-update timestamp.
C32_SuccessStampsMatch ==
    \A matchID \in DOMAIN games, playerID \in IDs :
        \A gs \in AfterSuccess(matchID, playerID) : gs[matchID].updatedAt = now

\* C33: in every state, also while a host makes several CreateMatch calls at
\* the same time, no host has more than 5 registered matches of its own
\* that are not over.
C33_LimitUnderConcurrency ==
    \A hostID \in IDs : countActiveGamesByHost(games, hostID) <= maxGamesPerUser

(***************************************************************************)
(* C34: in the Player-based model, ReceiveAttack on water that was shot    *)
(* before returns Miss and no error, on a ship cell that was hit before    *)
(* returns Invalid and ErrRepeatedHit and leaves the ship's damage and the *)
(* ships-afloat count alone, and outside the grid returns ErrOutOfBounds;  *)
(* through Fire the repeated shot at missed water succeeds and passes the  *)
(* turn, the repeated shot at a hit ship cell fails and keeps the turn.    *)
(***************************************************************************)
C34_RepeatedShots ==
    /\ \A id \in DOMAIN ctl.players, c \in FireTargets :
           LET p == ctl.players[id]
               r == Player_ReceiveAttack(p, c)
           IN  /\ ~inBounds(c) => r.err = ErrOutOfBounds /\ r.p = p
               /\ inBounds(c) /\ cellAt(p, c).isHit /\ cellAt(p, c).shipRef = NoShip
                      => r.res = ResultMiss /\ r.err = ErrNil /\ r.p = p
               /\ inBounds(c) /\ cellAt(p, c).isHit /\ cellAt(p, c).shipRef # NoShip
                      => /\ r.res = ResultInvalid /\ r.err = ErrRepeatedHit
                         /\ r.p.ships = p.ships /\ r.p.shipsAfloat = p.shipsAfloat
    /\ ctl.phase = PhasePlay
           => \A d \in opponentsOf(ctl, ctl.turn), c \in FireTargets :
                  LET r == Ctl_Fire(ctl, ctl.turn, c)
                      cell == cellAt(ctl.players[d], c)
                  IN  /\ inBounds(c) /\ cell.isHit /\ cell.shipRef = NoShip
                             => r.err = ErrNil /\ r.res = ResultMiss /\ r.c.turn = d
                      /\ inBounds(c) /\ cell.isHit /\ cell.shipRef # NoShip
                             => r.err = ErrRepeatedHit /\ r.res = ResultInvalid /\ r.c = ctl
                      /\ ~inBounds(c) => r.err = ErrOutOfBounds /\ r.c = ctl

\* A Fire at a ship cell that was hit before has failed, on a board whose
\* water was shot as well.
C34_Witness ==
    /\ kret.op = "Fire" /\ kret.again /\ kret.err = ErrRepeatedHit
    /\ \E id \in DOMAIN ctl.players, c \in FireTargets :
           /\ inBounds(c) /\ cellAt(ctl.players[id], c).isHit
           /\ cellAt(ctl.players[id], c).shipRef = NoShip

(***************************************************************************)
(* C35: a registry PlaceShip or Attack that returns an error publishes no  *)
(* event, leaves the last-update time of the match alone, and leaves the   *)
(* phase, turn, winner, inventories and boards of the match as they were.  *)
(***************************************************************************)
\* The calls of PlaceShip and Attack on a match, one instant later than the
\* last stamp: their results and the game each leaves behind in place.
FailProbes(matchID, playerID) ==
    {[r |-> Svc_PlaceShip(games, matchID, playerID, size, c.X, c.Y, vertical, now + 1),
      g |-> IF matchID \in DOMAIN games
            THEN Game_PlaceShip(games[matchID].game, playerID, c, size,
                                IF vertical THEN Vertical ELSE Horizontal).g
            ELSE NewGame] :
        size \in {2, 3, 6}, c \in {RowCells[1], ColumnCells[2], OffGrid}, vertical \in BOOLEAN}
    \cup
    {[r |-> Svc_Attack(games, matchID, playerID, c.X, c.Y, now + 1),
      g |-> IF matchID \in DOMAIN games
            THEN Game_Attack(games[matchID].game, playerID, c).g
            ELSE NewGame] :
        c \in {RowCells[1], ColumnCells[1], ColumnCells[2], OffGrid}}

C35_FailedCallsChangeNothing ==
    \A matchID \in DOMAIN games \cup {Unregistered}, playerID \in Callers :
        \A probe \in FailProbes(matchID, playerID) :
            probe.r.err # ErrNil
                => /\ probe.r.event = NoEvent
                   /\ probe.r.games = games
                   /\ matchID \in DOMAIN games => probe.g = games[matchID].game

\* An Attack on a cell that was shot before has been refused in a match in
\* play whose boards carry ships and shots.
C35_Witness ==
    /\ sret.op = "Attack" /\ sret.err = ErrInvalidShot
    /\ \E matchID \in DOMAIN games :
           /\ games[matchID].game.state = StatePlaying
           /\ Svc_Attack(games, matchID, games[matchID].game.turn, 0, 0, now + 1).err
                  = ErrInvalidShot

(***************************************************************************)
(* C36: fleet conservation.  For each player of a match and each ship size *)
(* the remaining count is never negative, and the remaining count plus the *)
(* number of ships of that size on the player's board is the starting      *)
(* count; the ship cells on the board number the sum of size times ships   *)
(* placed, and 17 for both players of a match in Playing or GameOver.      *)
(***************************************************************************)
\* The ships of a size on a board: Game.PlaceShip allocates them, and
\* freshShip numbers them by size.
ShipsOfSize(board, size) ==
    {s \in {board.tiles[c].ship : c \in DOMAIN board.tiles} \ {NilShip} :
        s \div (GridSize * GridSize) = size}

ShipCells(board) == {c \in DOMAIN board.tiles : board.tiles[c].ship # NilShip}

RECURSIVE SumOver(_, _)
SumOver(f, keys) ==
    IF keys = {} THEN 0
    ELSE LET k == CHOOSE x \in keys : TRUE IN f[k] + SumOver(f, keys \ {k})

FleetCells == SumOver([size \in DOMAIN StandardFleet |-> size * StandardFleet[size]],
                      DOMAIN StandardFleet)

Conserved(p) ==
    /\ \A size \in DOMAIN p.fleet :
           /\ p.fleet[size] >= 0
           /\ p.fleet[size] + Cardinality(ShipsOfSize(p.board, size)) = StandardFleet[size]
    /\ Cardinality(ShipCells(p.board))
           = SumOver([size \in DOMAIN p.fleet |->
                         size * Cardinality(ShipsOfSize(p.board, size))], DOMAIN p.fleet)

C36_FleetConservation ==
    \A matchID \in DOMAIN games :
        LET game == games[matchID].game
        IN  /\ \A n \in {1, 2} : Slot(game, n) # NilPlayer => Conserved(Slot(game, n))
            /\ game.state \in {StatePlaying, StateGameOver}
                   => /\ FleetCells = 17
                      /\ \A n \in {1, 2} :
                             Cardinality(ShipCells(Slot(game, n).board)) = FleetCells

\* A match is over with both fleets of 17 cells on their boards.
C36_Witness ==
    \E matchID \in DOMAIN games :
        /\ games[matchID].game.state = StateGameOver
        /\ \A n \in {1, 2} : Cardinality(ShipCells(Slot(games[matchID].game, n).board)) = 17

(***************************************************************************)
(* C37: the two players of a match always have different identifiers: a    *)
(* JoinMatch by the identifier in the host slot does not fill the guest    *)
(* slot, so in Playing the attacker and the defender are never the same    *)
(* player.                                                                 *)
(***************************************************************************)
C37_DistinctPlayers ==
    \A matchID \in DOMAIN games :
        LET game == games[matchID].game
        IN  /\ game.player1 # NilPlayer /\ game.player2 # NilPlayer
                   => game.player1.id # game.player2.id
            /\ Svc_JoinMatch(games, matchID, games[matchID].host, now).err # ErrNil

(***************************************************************************)
(* C38: a sweep of gc never deletes a match with fresh activity: at every  *)
(* deletion the last-update time of the deleted match is older than the    *)
(* threshold of its phase, so a gameplay call that completed and stamped   *)
(* the match before the deletion keeps the match in the registry.          *)
(***************************************************************************)
Expired(sg, t) ==
    IF IsGameOver(sg.game) THEN t - sg.updatedAt > 10 * Minute
    ELSE t - sg.updatedAt > 24 * Hour

C38_DeletesOnlyExpired ==
    [][\A matchID \in DOMAIN games \ DOMAIN games' :
           Expired(games[matchID], call[Cleaner].started)]_vars

(***************************************************************************)
(* C39: in the NotificationService the channel of a subscriber is closed   *)
(* exactly once, by the first Unsubscribe on its subscription, and a       *)
(* repeated Unsubscribe does nothing; Publish never sends on a closed      *)
(* channel; no event published after Unsubscribe returned reaches that     *)
(* subscriber; and Unsubscribe neither removes nor closes another          *)
(* subscriber of the match.                                                *)
(***************************************************************************)
\* The subscribers of a slice other than id, with their channels.
Others(slice, id) == SelectSeq(slice, LAMBDA sub : sub.id # id)

C39_UnsubscribeOnce ==
    \A id \in DOMAIN handles :
        LET matchID == handles[id].matchID
            after == NS_Unsubscribe(subscribers, matchID, id)
        IN  /\ handles[id].closed <= 1
            /\ id \in Subscribed(subscribers) <=> handles[id].closed = 0
            /\ handles[id].closed = 1
                   => /\ NS_Closed(subscribers, matchID, id) = {}
                      /\ after = subscribers
                      /\ \A event \in Published :
                             id \notin NS_Publish(subscribers, event).sent
            /\ handles[id].closed = 0
                   => /\ NS_Closed(subscribers, matchID, id) = {id}
                      /\ id \notin Subscribed(after)
            /\ \A k \in DOMAIN subscribers :
                   Others(subscribersOf(after, k), id) = Others(subscribers[k], id)

\* One subscriber of a match has unsubscribed, the other one of the same
\* match is still there with an event in its channel.
C39_Witness ==
    \E id \in DOMAIN handles, other \in DOMAIN handles :
        /\ handles[id].closed = 1
        /\ handles[other].closed = 0
        /\ handles[other].matchID = handles[id].matchID
        /\ \E i \in DOMAIN subscribers[handles[other].matchID] :
               /\ subscribers[handles[other].matchID][i].id = other
               /\ subscribers[handles[other].matchID][i].ch # <<>>

(***************************************************************************)
(* C40: the events of a match reach each subscriber in the order in which  *)
(* they were published: when e1 is published before e2 for the same match, *)
(* no subscriber of the match or of the wildcard handles e2 before e1.     *)
(***************************************************************************)
C40_HandledInOrder ==
    \A id \in DOMAIN ebus.handled :
        \A i \in DOMAIN ebus.handled[id], j \in DOMAIN ebus.handled[id] :
            i < j /\ ebus.handled[id][i].MatchID = ebus.handled[id][j].MatchID
                => ebus.handled[id][i].Seq < ebus.handled[id][j].Seq

====
